---- MODULE Spec2Model ----
(***************************************************************************)
(* Model of the codebuddy indexing core: the threaded parse pipeline with  *)
(* its single _DBWriter thread (code_analysis/code_map_builder.py), the    *)
(* store helpers and the processing-status tracker (util/db_utils.py) and  *)
(* the run_full_analysis driver (actions/run_analysis.py).                 *)
(***************************************************************************)
EXTENDS Integers, Sequences, FiniteSets, TLC

(***************************************************************************)
(* Bounds of the model.                                                    *)
(***************************************************************************)
\* number of source files found under root_path (paths are 1..MaxFiles)
MaxFiles == 2
\* number of runs of run_full_analysis that are started
MaxRuns == 2
\* max_workers handed to the ThreadPoolExecutor
MaxWorkers == 2
\* number of store steps that raise (sqlite error, unreadable source file)
MaxFaults == 1
\* number of calls of the summarization entry points
MaxSummaries == 1
\* item ids handed to mark_processed in SpecTracker
MaxItems == 2
\* number of files whose FileFacts can be handed to store_file_info directly
MaxSources == 3
\* number of store operations (store_file_info calls, mark_processed calls,
\* summary writes) in SpecStore and SpecLedger
MaxOps == 3
\* number of summary writes in SpecSummaries
MaxWrites == 2

Paths == 1..MaxFiles
Writers == 1..MaxRuns
HEAD == "HEAD"
Commits == {HEAD, "HEAD~1"}
ItemTypes == {"file", "function"}
Items == 1..MaxItems
Sources == 1..MaxSources
Texts == {"s1", "s2"}
\* threads that call insert_or_get_file_id directly
MaxCallers == 2
Callers == 1..MaxCallers
\* pool_size of the SQLiteConnectionPool
MaxConns == 2

\* what parse_and_store_entire_codebase is handed as parser_or_language and
\* what the installed tree_sitter offers: kind is None, a Parser instance or
\* a Language; ts is "TS_Parser is not None"; lang is whether a language can
\* be read from parser_or_language; set_language is whether Parser objects
\* have the method set_language
NoConfig == [kind |-> "unset", ts |-> FALSE, lang |-> FALSE, set_language |-> FALSE]
ParserConfigs ==
    {c \in [kind : {"none", "parser", "language"}, ts : BOOLEAN, lang : BOOLEAN,
            set_language : BOOLEAN] :
        /\ c.kind = "parser" => c.ts
        /\ c.kind = "none" => ~c.lang
        /\ c.kind = "language" => c.lang
        /\ ~c.ts => ~c.set_language}
\* language names handed to load_language, and their cache keys
LanguageNames == {"c", "C", "cpp"}
LanguageKeys == {"c", "cpp"}
\* number of load_language calls per name and of get_parser calls in SpecGrammar
MaxLoads == 2
MaxGets == 2

\* parser objects: the one handed in, and those a task creates for itself
NoParser == <<"none", 0>>
SharedParser == <<"shared", 0>>

VARIABLES
    \* ---- the store (util/db_utils.py SCHEMA); row ids are sequence indices
    files,            \* files: sequence of paths, file_id = index
    file_symbols,     \* file_symbols rows
    functions,        \* functions rows, function_id = index
    function_calls,   \* function_calls rows
    file_summaries,   \* file_summaries rows, unique per (file_id, commit_sha)
    function_summaries,  \* function_summaries rows, unique per (function_id, commit_sha)
    status_master,    \* summary_status_master rows, item_id is the primary key
    status_commit,    \* summary_status_commit rows, unique per (item_id, commit_sha)
    pending,          \* status rows written but not committed: the open transaction
                      \* a mark_processed call that raised left on its pooled connection
    status_times,     \* the columns first_seen_at and last_updated_at of the rows
                      \* written to the two status tables, and CURRENT_TIMESTAMP
    \* ---- the process
    stop_flag,        \* run_analysis._stop_flag
    pc,               \* position of the main thread
    runs,             \* runs of run_full_analysis started so far
    task,             \* state of each future submitted to the executor
    processed_count,  \* progress counter of the current run
    last_processed_relpath,  \* the watchdog's current-file marker (0 = None)
    writers,          \* the _DBWriter threads, one per run
    todo,             \* run_full_analysis: the files still to be summarized
    \* ---- bookkeeping of the verification
    passes,           \* one record per store_file_info call
    enqueued,         \* per writer: the items enqueued, in arrival order
    extracted,        \* per path: number of extract_info_from_file calls
    faults,           \* store steps that raised so far
    summaries,        \* summarization entry-point calls so far
    marked,           \* the (item_type, item_id, commit_sha) of every successful mark_processed
    was_cancelled,    \* some earlier run of run_full_analysis ended with the stop flag set
    file_id_calls,    \* the direct calls of insert_or_get_file_id: the paths of the
                      \* calls between their INSERT and their SELECT, the
                      \* (path, id) every finished call returned, the calls so far
    conns,            \* the connection pool and the threads that summarize: the
                      \* connections in the pool's queue, and per thread its
                      \* position, the connections its own frame holds, its file
    parsing,          \* the parse step of the workers: what parser_or_language is,
                      \* the holder of _PARSE_LOCK, and per task its position and
                      \* the parser it is parsing with
    grammar_cache,    \* code_analysis/parser.py: _LANGUAGE_CACHE, _PARSER_CACHE, the
                      \* load_language calls per name, the get_language calls per
                      \* key, the Parser objects created so far, and what every
                      \* get_parser call returned
    extraction,       \* one extract_info_from_file call: the file name, the tree
                      \* the parser returned for it, the functions extracted
    watchdogs,        \* the runs whose _watchdog thread has ended
    assembly,         \* one build_code_map_from_db call seen from its func_map:
                      \* the rows of func_map before the unification, and the
                      \* function entries attached to the code map
    fetches           \* per thread that is in build_code_map_from_db: the calls of
                      \* fetch_function_name_and_file its loop has still to make

store == <<files, file_symbols, functions, function_calls>>
tracker == <<status_master, status_commit, pending, file_summaries, function_summaries,
            status_times>>
proc == <<stop_flag, pc, runs, task, processed_count, last_processed_relpath, writers, todo>>
ghost == <<passes, enqueued, extracted, faults, summaries, marked, was_cancelled>>
others == <<conns, parsing, grammar_cache, extraction, watchdogs>>
\* the state of the later sections
later == <<assembly, fetches>>
vars == <<store, tracker, proc, ghost, file_id_calls, others, later>>

(***************************************************************************)
(* The source tree.  It does not change between runs.  Facts(p) is what    *)
(* extract_info_from_file returns for path p.                              *)
(***************************************************************************)
Fn(name, s, e, proto) ==
    [name |-> name, start_line |-> s, end_line |-> e, prototype |-> proto]

\* a.c: struct S; int a() { b(); }  int b() { return 1; }
FactsSource ==
    [structs |-> <<"S">>, typedefs |-> <<>>, globals |-> <<>>,
     functions |-> <<Fn("a", 1, 3, FALSE), Fn("b", 5, 7, FALSE)>>,
     calls |-> <<<<2, "b">>>>]
\* h.h: int foo(int x);  void init(void);   (init is defined in no file)
FactsHeader ==
    [structs |-> <<>>, typedefs |-> <<>>, globals |-> <<>>,
     functions |-> <<Fn("foo", 1, 1, TRUE), Fn("init", 2, 2, TRUE)>>,
     calls |-> <<>>]
\* h.c: int foo(int x) { a(); return foo(x - 1); }
\*      #if ... int use() { return 0; } #else int use() { foo(1); init(); } #endif
\* and, outside every function, a call expression init() on line 13
FactsImpl ==
    [structs |-> <<>>, typedefs |-> <<>>, globals |-> <<>>,
     functions |-> <<Fn("foo", 1, 3, FALSE), Fn("use", 5, 7, FALSE),
                     Fn("use", 9, 11, FALSE)>>,
     calls |-> <<<<2, "a">>, <<2, "foo">>, <<10, "foo">>, <<10, "init">>,
                 <<13, "init">>>>]

Facts(p) ==
    CASE p % 3 = 1 -> FactsSource
      [] p % 3 = 2 -> FactsHeader
      [] OTHER -> FactsImpl

\* the symbol rows store_file_info writes for one file: structs, typedefs, globals
Symbols(info) ==
    [i \in 1..Len(info.structs) |-> [symbol_type |-> "struct", symbol_name |-> info.structs[i]]]
    \o [i \in 1..Len(info.typedefs) |-> [symbol_type |-> "typedef", symbol_name |-> info.typedefs[i]]]
    \o [i \in 1..Len(info.globals) |-> [symbol_type |-> "global", symbol_name |-> info.globals[i]]]

(***************************************************************************)
(* util/db_utils.py: the store helpers.  Every helper commits on its own.  *)
(***************************************************************************)
\* SELECT file_id FROM files WHERE path = ?   (0 when there is no row)
file_id_of(fs, path) ==
    IF \E i \in 1..Len(fs) : fs[i] = path
    THEN CHOOSE i \in 1..Len(fs) : fs[i] = path
    ELSE 0

\* a plain INSERT INTO files (path), without OR IGNORE and without the UNIQUE
\* constraint on path
insert_or_get_file_id_always_inserts(fs, path) == Append(fs, path)

\* INSERT OR IGNORE INTO files (path)
insert_or_get_file_id(fs, path) ==
    IF file_id_of(fs, path) # 0 THEN fs ELSE Append(fs, path)

insert_file_symbol(syms, file_id, symbol_type, symbol_name) ==
    Append(syms, [file_id |-> file_id, symbol_type |-> symbol_type,
                  symbol_name |-> symbol_name])

insert_function(fns, file_id, func) ==
    Append(fns, [file_id |-> file_id, name |-> func.name,
                 start_line |-> func.start_line, end_line |-> func.end_line,
                 is_prototype |-> func.prototype])

\* insert_function_call as it would be without its first two lines
insert_function_call_unguarded(calls, caller_id, callee_id) ==
    Append(calls, [caller_id |-> caller_id, callee_id |-> callee_id])

\* recursive calls are dropped: no row when caller_id = callee_id
insert_function_call(calls, caller_id, callee_id) ==
    IF caller_id = callee_id
    THEN calls
    ELSE Append(calls, [caller_id |-> caller_id, callee_id |-> callee_id])

\* the first row of a SELECT ... LIMIT 1, given the ids of the rows that
\* match; 0 for None
FirstRow(ids) ==
    IF ids = {} THEN 0 ELSE CHOOSE i \in ids : \A j \in ids : i <= j

\* _find_function_id as it would be without the is_prototype=0 query of
\* lines 395-400: the first row of the name, prototype or not
_find_function_id_any_row(fns, file_id, func_name) ==
    LET named == {i \in 1..Len(fns) : fns[i].name = func_name}
    IN  IF file_id # 0
        THEN FirstRow({i \in named : fns[i].file_id = file_id})
        ELSE FirstRow(named)

\* code_map_builder._find_function_id; file_id = 0 stands for None
_find_function_id(fns, file_id, func_name) ==
    LET named == {i \in 1..Len(fns) : fns[i].name = func_name}
    IN  IF file_id # 0
        THEN FirstRow({i \in named : fns[i].file_id = file_id})
        ELSE LET def == FirstRow({i \in named : ~fns[i].is_prototype})
             IN  IF def # 0 THEN def ELSE FirstRow(named)

(***************************************************************************)
(* util/db_utils.py: the processing-status tracker.  The timestamp columns *)
(* first_seen_at and last_updated_at are kept apart from the rows, in      *)
(* status_times.                                                           *)
(***************************************************************************)
\* INSERT OR IGNORE INTO summary_status_master: item_id is the primary key
mark_master(master, item_type, item_id) ==
    IF \E m \in master : m.item_id = item_id
    THEN master
    ELSE master \cup {[item_id |-> item_id, item_type |-> item_type]}

\* mark_commit as it would be with one status row per item: the row of another
\* commit is replaced
mark_commit_replaces(commits, item_id, commit_sha) ==
    {s \in commits : s.item_id # item_id}
    \cup {[item_id |-> item_id, commit_sha |-> commit_sha]}

\* INSERT INTO summary_status_commit ... ON CONFLICT(item_id, commit_sha) DO UPDATE
mark_commit(commits, item_id, commit_sha) ==
    commits \cup {[item_id |-> item_id, commit_sha |-> commit_sha]}

\* first_seen_at after INSERT OR IGNORE INTO summary_status_master ... VALUES
\* (?, ?, CURRENT_TIMESTAMP) as it would be with INSERT OR REPLACE
mark_master_time_replaces(seen, master, item_id, now) ==
    {s \in seen : s.item_id # item_id} \cup {[item_id |-> item_id, at |-> now]}

\* first_seen_at after INSERT OR IGNORE INTO summary_status_master ... VALUES
\* (?, ?, CURRENT_TIMESTAMP): written only with a new row
mark_master_time(seen, master, item_id, now) ==
    IF \E m \in master : m.item_id = item_id
    THEN seen
    ELSE {s \in seen : s.item_id # item_id} \cup {[item_id |-> item_id, at |-> now]}

\* last_updated_at after INSERT ... ON CONFLICT(item_id, commit_sha) DO UPDATE
\* SET last_updated_at = CURRENT_TIMESTAMP
mark_commit_time(updated, item_id, commit_sha, now) ==
    {u \in updated : ~(u.item_id = item_id /\ u.commit_sha = commit_sha)}
    \cup {[item_id |-> item_id, commit_sha |-> commit_sha, at |-> now]}

\* the timestamp columns after the two statements of mark_processed
mark_processed_times(times, master, item_id, commit_sha) ==
    [times EXCEPT
        !.first_seen_at = mark_master_time(@, master, item_id, times.now),
        !.last_updated_at = mark_commit_time(@, item_id, commit_sha, times.now)]

\* is_processed(db_pool, item_type, item_id, commit_sha): the status lookup, by
\* the same join as get_unprocessed_files / get_unprocessed_functions
is_processed(master, commits, item_type, item_id, commit_sha) ==
    /\ \E m \in master : m.item_id = item_id /\ m.item_type = item_type
    /\ \E s \in commits : s.item_id = item_id /\ s.commit_sha = commit_sha

\* get_unprocessed_files: files LEFT JOIN master (type 'file') LEFT JOIN commit rows
get_unprocessed_files(fs, master, commits, commit_sha) ==
    {fid \in 1..Len(fs) :
        ~\E m \in master :
            /\ m.item_id = fid /\ m.item_type = "file"
            /\ \E s \in commits : s.item_id = m.item_id /\ s.commit_sha = commit_sha}

\* get_unprocessed_functions: functions LEFT JOIN master (type 'function')
\* LEFT JOIN commit rows
get_unprocessed_functions(fns, master, commits, commit_sha) ==
    {fid \in 1..Len(fns) :
        ~\E m \in master :
            /\ m.item_id = fid /\ m.item_type = "function"
            /\ \E s \in commits : s.item_id = m.item_id /\ s.commit_sha = commit_sha}

\* a plain INSERT INTO file_summaries, without the ON CONFLICT clause and
\* without the UNIQUE(file_id, commit_sha) constraint
insert_file_summary_plain(sums, file_id, commit_sha, summary, summary_refined) ==
    sums \cup {[file_id |-> file_id, commit_sha |-> commit_sha,
                summary |-> summary, summary_refined |-> summary_refined]}

\* INSERT INTO file_summaries ... ON CONFLICT(file_id, commit_sha) DO UPDATE
insert_file_summary(sums, file_id, commit_sha, summary, summary_refined) ==
    {r \in sums : ~(r.file_id = file_id /\ r.commit_sha = commit_sha)}
    \cup {[file_id |-> file_id, commit_sha |-> commit_sha,
           summary |-> summary, summary_refined |-> summary_refined]}

\* INSERT INTO function_summaries ... ON CONFLICT(function_id, commit_sha) DO UPDATE
insert_function_summary(sums, function_id, commit_sha, summary, summary_refined) ==
    {r \in sums : ~(r.function_id = function_id /\ r.commit_sha = commit_sha)}
    \cup {[function_id |-> function_id, commit_sha |-> commit_sha,
           summary |-> summary, summary_refined |-> summary_refined]}

(***************************************************************************)
(* code_map_builder.store_file_info, one committed helper call at a time:  *)
(* step 1 is insert_or_get_file_id, then one step per symbol, per function *)
(* and per (caller_line, callee_name) pair, in that order.                 *)
(***************************************************************************)
PlanLen(info) ==
    1 + Len(Symbols(info)) + Len(info.functions) + Len(info.calls)

\* the first function of all_funcs whose line range holds the line (0 for none)
EnclosingIndex(info, line) ==
    IF \E i \in 1..Len(info.functions) :
           info.functions[i].start_line <= line /\ line <= info.functions[i].end_line
    THEN CHOOSE i \in 1..Len(info.functions) :
           /\ info.functions[i].start_line <= line /\ line <= info.functions[i].end_line
           /\ \A j \in 1..(i - 1) :
                ~(info.functions[j].start_line <= line /\ line <= info.functions[j].end_line)
    ELSE 0

\* store_call as it would be without the test of callee_func_id (line 369)
store_call_unchecked(fns, calls, file_id, info, pair) ==
    LET enc == EnclosingIndex(info, pair[1])
        caller_func_id ==
            IF enc = 0 THEN 0
            ELSE _find_function_id(fns, file_id, info.functions[enc].name)
    IN  IF caller_func_id # 0
        THEN insert_function_call(calls, caller_func_id,
                                  _find_function_id(fns, 0, pair[2]))
        ELSE calls

\* lines 360-373: resolve one call pair and insert the edge when both ends resolve
store_call(fns, calls, file_id, info, pair) ==
    LET enc == EnclosingIndex(info, pair[1])
        caller_func_id ==
            IF enc = 0 THEN 0
            ELSE _find_function_id(fns, file_id, info.functions[enc].name)
        callee_func_id == _find_function_id(fns, 0, pair[2])
    IN  IF caller_func_id # 0 /\ callee_func_id # 0
        THEN insert_function_call(calls, caller_func_id, callee_func_id)
        ELSE calls

\* store_file_info as it would be with the loop over the call pairs (lines
\* 360-373) ahead of the loop over the functions (lines 338-358): the pairs are
\* resolved in a functions table without the rows of this call
store_file_info_calls_first(fs, syms, fns, calls, p, k) ==
    LET info == Facts(p)
        nsym == Len(Symbols(info))
        nfun == Len(info.functions)
        file_id == file_id_of(fs, p)
        base == [files |-> fs, file_symbols |-> syms, functions |-> fns,
                 function_calls |-> calls]
    IN  IF k = 1 THEN
            [base EXCEPT !.files = insert_or_get_file_id(fs, p)]
        ELSE IF k <= 1 + nsym THEN
            [base EXCEPT !.file_symbols =
                insert_file_symbol(syms, file_id, Symbols(info)[k - 1].symbol_type,
                                   Symbols(info)[k - 1].symbol_name)]
        ELSE IF k <= 1 + nsym + nfun THEN
            [base EXCEPT !.functions =
                insert_function(fns, file_id, info.functions[k - 1 - nsym])]
        ELSE
            [base EXCEPT !.function_calls =
                store_call(SubSeq(fns, 1, Len(fns) - nfun), calls, file_id, info,
                           info.calls[k - 1 - nsym - nfun])]

\* the store after step k of store_file_info for path p
store_file_info(fs, syms, fns, calls, p, k) ==
    LET info == Facts(p)
        nsym == Len(Symbols(info))
        nfun == Len(info.functions)
        file_id == file_id_of(fs, p)
        base == [files |-> fs, file_symbols |-> syms, functions |-> fns,
                 function_calls |-> calls]
    IN  IF k = 1 THEN
            [base EXCEPT !.files = insert_or_get_file_id(fs, p)]
        ELSE IF k <= 1 + nsym THEN
            [base EXCEPT !.file_symbols =
                insert_file_symbol(syms, file_id, Symbols(info)[k - 1].symbol_type,
                                   Symbols(info)[k - 1].symbol_name)]
        ELSE IF k <= 1 + nsym + nfun THEN
            [base EXCEPT !.functions =
                insert_function(fns, file_id, info.functions[k - 1 - nsym])]
        ELSE
            [base EXCEPT !.function_calls =
                store_call(fns, calls, file_id, info, info.calls[k - 1 - nsym - nfun])]

(***************************************************************************)
(* code_analysis/code_map.py: build_code_map_from_db (the same algorithm   *)
(* as build_code_map_from_db of main.py).  A label "path::name" is the     *)
(* pair <<path, name>>; the functions of all files are one sequence of     *)
(* entries that carry their path, in the order they are attached.          *)
(***************************************************************************)
\* db_utils.fetch_function_name_and_file: the label of a function row
fetch_function_name_and_file(fs, fns, function_id) ==
    <<fs[fns[function_id].file_id], fns[function_id].name>>

\* lines 68-71: the function rows that get a func_map entry
InFuncMap(fs, fns, function_id) ==
    /\ function_id \in 1..Len(fns)
    /\ fns[function_id].file_id \in 1..Len(fs)

\* Dedup as it would be without dict.fromkeys
Dedup_keeps_all(seq) == seq

\* UnifyKey as it would be if functions were unified by name alone
UnifyKey_by_name(fs, fns, function_id) == <<fns[function_id].name>>

\* list(dict.fromkeys(seq)): the first occurrence of every element, in order
RECURSIVE Dedup(_)
Dedup(seq) ==
    IF seq = <<>> THEN <<>>
    ELSE LET front == Dedup(SubSeq(seq, 1, Len(seq) - 1))
             last == seq[Len(seq)]
         IN  IF \E i \in 1..Len(front) : front[i] = last
             THEN front
             ELSE Append(front, last)

\* lines 99-105: the function_calls rows that are used, in row order
UsedCalls(fs, fns, calls) ==
    SelectSeq(calls, LAMBDA r : InFuncMap(fs, fns, r.caller_id)
                                /\ InFuncMap(fs, fns, r.callee_id))

\* lines 104 and 109-110: func_map[cid]["callees"] receives c_name, the label
\* of the caller cid itself, for every row whose caller is cid
FuncCallees(fs, fns, calls, function_id) ==
    LET rows == SelectSeq(UsedCalls(fs, fns, calls),
                          LAMBDA r : r.caller_id = function_id)
    IN  Dedup([k \in 1..Len(rows) |->
                 fetch_function_name_and_file(fs, fns, rows[k].caller_id)])

\* lines 105 and 109-110: func_map[calid]["callers"] receives c_name for every
\* row whose callee is calid
FuncCallers(fs, fns, calls, function_id) ==
    LET rows == SelectSeq(UsedCalls(fs, fns, calls),
                          LAMBDA r : r.callee_id = function_id)
    IN  Dedup([k \in 1..Len(rows) |->
                 fetch_function_name_and_file(fs, fns, rows[k].caller_id)])

\* line 115: the key under which function rows are unified
UnifyKey(fs, fns, function_id) ==
    <<fs[fns[function_id].file_id], fns[function_id].name,
      fns[function_id].start_line, fns[function_id].end_line>>

\* the function rows of func_map with the key of function_id, in row order
SameKey(fs, fns, function_id) ==
    SelectSeq([i \in 1..Len(fns) |-> i],
              LAMBDA i : /\ InFuncMap(fs, fns, i)
                         /\ UnifyKey(fs, fns, i) = UnifyKey(fs, fns, function_id))

RECURSIVE Concat(_)
Concat(seqs) ==
    IF seqs = <<>> THEN <<>> ELSE Head(seqs) \o Concat(Tail(seqs))

\* lines 113-147: the entry of the first row of a key: its own fields, and the
\* reference lists of all rows of the key, extended in row order and
\* deduplicated
FuncEntry(fs, fns, calls, function_id) ==
    LET grp == SameKey(fs, fns, function_id)
    IN  [path |-> fs[fns[function_id].file_id],
         name |-> fns[function_id].name,
         start_line |-> fns[function_id].start_line,
         end_line |-> fns[function_id].end_line,
         prototype |-> fns[function_id].is_prototype,
         callers |-> Dedup(Concat([k \in 1..Len(grp) |->
                                     FuncCallers(fs, fns, calls, grp[k])])),
         callees |-> Dedup(Concat([k \in 1..Len(grp) |->
                                     FuncCallees(fs, fns, calls, grp[k])]))]

\* the function entries of the code map, in the order unify_map yields them
build_code_map_from_db(fs, fns, calls) ==
    LET firsts == SelectSeq([i \in 1..Len(fns) |-> i],
                            LAMBDA i : /\ InFuncMap(fs, fns, i)
                                       /\ SameKey(fs, fns, i)[1] = i)
    IN  [k \in 1..Len(firsts) |-> FuncEntry(fs, fns, calls, firsts[k])]

(***************************************************************************)
(* Initial state: a fresh process on an empty store.                       *)
(***************************************************************************)
NoPending == [master |-> {}, commits |-> {}]

NoWriter == [state |-> "unborn", q |-> <<>>, pass |-> 0]

Init ==
    /\ files = <<>> /\ file_symbols = <<>> /\ functions = <<>> /\ function_calls = <<>>
    /\ file_summaries = {} /\ function_summaries = {}
    /\ status_master = {} /\ status_commit = {}
    /\ pending = NoPending
    /\ status_times = [now |-> 1, first_seen_at |-> {}, last_updated_at |-> {}]
    /\ stop_flag = FALSE
    /\ pc = "idle"
    /\ runs = 0
    /\ task = [p \in Paths |-> "none"]
    /\ processed_count = 0
    /\ last_processed_relpath = 0
    /\ writers = [w \in Writers |-> NoWriter]
    /\ todo = {}
    /\ passes = <<>>
    /\ enqueued = [w \in Writers |-> <<>>]
    /\ extracted = [p \in Paths |-> 0]
    /\ faults = 0
    /\ summaries = 0
    /\ marked = {}
    /\ was_cancelled = FALSE
    /\ file_id_calls = [open |-> [t \in Callers |-> 0], returned |-> {}, n |-> 0]
    /\ conns = [free |-> MaxConns,
                at |-> [t \in Callers |-> "idle"],
                held |-> [t \in Callers |-> 0],
                item |-> [t \in Callers |-> 0]]
    /\ parsing = [cfg |-> NoConfig, lock |-> 0,
                  at |-> [p \in Paths |-> "none"],
                  using |-> [p \in Paths |-> NoParser]]
    /\ grammar_cache = [languages |-> {}, calls |-> [n \in LanguageNames |-> 0],
                        loads |-> [k \in LanguageKeys |-> 0],
                        parsers |-> [k \in LanguageKeys |-> 0],
                        created |-> 0, got |-> <<>>]
    /\ extraction = [state |-> "none", filename |-> <<>>, tree |-> <<>>,
                     functions |-> <<>>]
    /\ watchdogs = {}
    /\ assembly = [state |-> "none", func_map |-> <<>>, functions |-> <<>>]
    /\ fetches = [t \in Callers |-> 0]

(***************************************************************************)
(* parse_and_store_entire_codebase: the main thread.                       *)
(***************************************************************************)
\* lines 114-181 and 283-284: discover every file, start the writer and the
\* watchdog, submit one future per file
StartRun ==
    /\ pc = "idle"
    /\ runs < MaxRuns
    /\ runs' = runs + 1
    /\ task' = [p \in Paths |-> "pending"]
    /\ processed_count' = 0
    /\ last_processed_relpath' = 0
    /\ writers' = [writers EXCEPT ![runs + 1] = [state |-> "idle", q |-> <<>>, pass |-> 0]]
    /\ pc' = "dispatch"
    /\ UNCHANGED <<file_id_calls, others, later, store, tracker, stop_flag, todo, ghost>>

\* StopWriter as it would be if the main thread did not wait for the futures
StopWriter_early ==
    /\ pc = "dispatch"
    /\ writers' = [writers EXCEPT ![runs].q = Append(@, 0)]
    /\ pc' = "join"
    /\ UNCHANGED <<file_id_calls, others, later, store, tracker, stop_flag, runs, task, processed_count,
                   last_processed_relpath, todo, ghost>>

\* lines 287-300: every future has completed; done_event.set(), writer.stop()
StopWriter ==
    /\ pc = "dispatch"
    /\ \A p \in Paths : task[p] \in {"done", "failed"}
    /\ writers' = [writers EXCEPT ![runs].q = Append(@, 0)]
    /\ pc' = "join"
    /\ UNCHANGED <<file_id_calls, others, later, store, tracker, stop_flag, runs, task, processed_count,
                   last_processed_relpath, todo, ghost>>

\* lines 301-302: writer.join(timeout=30.0) returns because the writer thread
\* ended, and parse_and_store_entire_codebase returns (its locals are gone)
JoinWriter ==
    /\ pc = "join"
    /\ writers[runs].state = "exited"
    /\ pc' = "parsed"
    /\ task' = [p \in Paths |-> "none"]
    /\ processed_count' = 0
    /\ last_processed_relpath' = 0
    /\ UNCHANGED <<file_id_calls, others, later, store, tracker, stop_flag, runs, writers, todo, ghost>>

\* lines 301-302: writer.join(timeout=30.0) returns because the 30 seconds are
\* over, and parse_and_store_entire_codebase returns with the writer still alive
JoinTimeout ==
    /\ pc = "join"
    /\ writers[runs].state # "exited"
    /\ pc' = "parsed"
    /\ task' = [p \in Paths |-> "none"]
    /\ processed_count' = 0
    /\ last_processed_relpath' = 0
    /\ UNCHANGED <<file_id_calls, others, later, store, tracker, stop_flag, runs, writers, todo, ghost>>

(***************************************************************************)
(* _process_file: one worker task.  The executor hands the futures to its  *)
(* at most max_workers threads in submission order.                        *)
(***************************************************************************)
Running == {p \in Paths : task[p] = "running"}

\* lines 183-239: the task is picked up and extract_info_from_file is called
process_file_start(p) ==
    /\ pc = "dispatch"
    /\ task[p] = "pending"
    /\ \A q \in Paths : q < p => task[q] # "pending"
    /\ Cardinality(Running) < MaxWorkers
    /\ task' = [task EXCEPT ![p] = "running"]
    /\ last_processed_relpath' = p
    /\ extracted' = [extracted EXCEPT ![p] = @ + 1]
    /\ UNCHANGED <<file_id_calls, others, later, store, tracker, stop_flag, pc, runs, processed_count, writers, todo,
                   passes, enqueued, faults, summaries, marked, was_cancelled>>

\* lines 240-256: extraction returned; enqueue the FileFacts, count, clear the marker
process_file_done(p) ==
    /\ task[p] = "running"
    /\ task' = [task EXCEPT ![p] = "done"]
    /\ writers' = [writers EXCEPT ![runs].q = Append(@, p)]
    /\ enqueued' = [enqueued EXCEPT ![runs] = Append(@, p)]
    /\ processed_count' = processed_count + 1
    /\ last_processed_relpath' = 0
    /\ UNCHANGED <<file_id_calls, others, later, store, tracker, stop_flag, pc, runs, todo,
                   passes, extracted, faults, summaries, marked, was_cancelled>>

\* process_file_error as it would be if the failed file were submitted again
process_file_error_retries(p) ==
    /\ task[p] = "running"
    /\ task' = [task EXCEPT ![p] = "pending"]
    /\ processed_count' = processed_count + 1
    /\ last_processed_relpath' = 0
    /\ UNCHANGED <<file_id_calls, others, later, store, tracker, stop_flag, pc, runs, writers, todo, ghost>>

\* process_file_error as it would be without lines 260-261: a failed file is
\* not counted
process_file_error_uncounted(p) ==
    /\ task[p] = "running"
    /\ task' = [task EXCEPT ![p] = "failed"]
    /\ last_processed_relpath' = 0
    /\ UNCHANGED <<file_id_calls, others, later, store, tracker, stop_flag, pc, runs, writers, todo, ghost,
                   processed_count>>

\* lines 257-264: parsing or extraction raised; count, clear the marker
process_file_error(p) ==
    /\ task[p] = "running"
    /\ task' = [task EXCEPT ![p] = "failed"]
    /\ processed_count' = processed_count + 1
    /\ last_processed_relpath' = 0
    /\ UNCHANGED <<file_id_calls, others, later, store, tracker, stop_flag, pc, runs, writers, todo, ghost>>

(***************************************************************************)
(* _DBWriter.run                                                           *)
(***************************************************************************)
\* writer_get as it would be if the sentinel were dropped like a failed item
writer_get_ignores_sentinel(w) ==
    /\ writers[w].state = "idle"
    /\ writers[w].q # <<>>
    /\ LET item == Head(writers[w].q)
       IN  IF item = 0
           THEN /\ writers' = [writers EXCEPT ![w].q = Tail(@)]
                /\ UNCHANGED passes
           ELSE /\ passes' = Append(passes, [path |-> item, w |-> w, next |-> 1,
                                             rows |-> 0, st |-> "running"])
                /\ writers' = [writers EXCEPT ![w].state = "storing", ![w].q = Tail(@),
                                              ![w].pass = Len(passes) + 1]
    /\ UNCHANGED <<file_id_calls, others, later, store, tracker, stop_flag, pc, runs, task, processed_count,
                   last_processed_relpath, todo, enqueued, extracted, faults, summaries, marked, was_cancelled>>

\* lines 88-96: take the next item; the sentinel ends the thread, any other
\* item is handed to store_file_info
writer_get(w) ==
    /\ writers[w].state = "idle"
    /\ writers[w].q # <<>>
    /\ LET item == Head(writers[w].q)
       IN  IF item = 0
           THEN /\ writers' = [writers EXCEPT ![w].state = "exited", ![w].q = Tail(@)]
                /\ UNCHANGED passes
           ELSE /\ passes' = Append(passes, [path |-> item, w |-> w, next |-> 1,
                                             rows |-> 0, st |-> "running"])
                /\ writers' = [writers EXCEPT ![w].state = "storing", ![w].q = Tail(@),
                                              ![w].pass = Len(passes) + 1]
    /\ UNCHANGED <<file_id_calls, others, later, store, tracker, stop_flag, pc, runs, task, processed_count,
                   last_processed_relpath, todo, enqueued, extracted, faults, summaries, marked, was_cancelled>>

Rows(fs, syms, fns, calls) == Len(syms) + Len(fns) + Len(calls)

\* line 96: the next committed helper call of store_file_info; after the last
\* one the item is done (task_done) and the writer waits for the next item
writer_store(w) ==
    /\ writers[w].state = "storing"
    /\ LET i == writers[w].pass
           p == passes[i].path
           k == passes[i].next
           new == store_file_info(files, file_symbols, functions, function_calls, p, k)
           added == Rows(new.files, new.file_symbols, new.functions, new.function_calls)
                    - Rows(files, file_symbols, functions, function_calls)
           last == k = PlanLen(Facts(p))
       IN  /\ files' = new.files
           /\ file_symbols' = new.file_symbols
           /\ functions' = new.functions
           /\ function_calls' = new.function_calls
           /\ passes' = [passes EXCEPT ![i].next = k + 1, ![i].rows = @ + added,
                                       ![i].st = IF last THEN "ok" ELSE "running"]
           /\ writers' = [writers EXCEPT ![w].state = IF last THEN "idle" ELSE "storing",
                                         ![w].pass = IF last THEN 0 ELSE i]
    /\ UNCHANGED <<file_id_calls, others, later, tracker, stop_flag, pc, runs, task, processed_count,
                   last_processed_relpath, todo, enqueued, extracted, faults, summaries, marked, was_cancelled>>

\* writer_store_failed as it would be if the exception left _DBWriter.run
writer_store_failed_dies(w) ==
    /\ writers[w].state = "storing"
    /\ faults < MaxFaults
    /\ faults' = faults + 1
    /\ passes' = [passes EXCEPT ![writers[w].pass].st = "failed"]
    /\ writers' = [writers EXCEPT ![w].state = "exited", ![w].pass = 0]
    /\ UNCHANGED <<file_id_calls, others, later, store, tracker, stop_flag, pc, runs, task, processed_count,
                   last_processed_relpath, todo, enqueued, extracted, summaries, marked,
                   was_cancelled>>

\* lines 97-100: a helper call raised; the exception is logged, the item dropped
writer_store_failed(w) ==
    /\ writers[w].state = "storing"
    /\ faults < MaxFaults
    /\ faults' = faults + 1
    /\ passes' = [passes EXCEPT ![writers[w].pass].st = "failed"]
    /\ writers' = [writers EXCEPT ![w].state = "idle", ![w].pass = 0]
    /\ UNCHANGED <<file_id_calls, others, later, store, tracker, stop_flag, pc, runs, task, processed_count,
                   last_processed_relpath, todo, enqueued, extracted, summaries, marked, was_cancelled>>

(***************************************************************************)
(* actions/run_analysis.py: _run_full_analysis_async after the parse step, *)
(* with summarize_functions = False (the default of run_full_analysis).    *)
(***************************************************************************)
\* lines 71-107: files = get_unprocessed_files(db_pool); one task per file
list_unprocessed ==
    /\ pc = "parsed"
    /\ todo' = get_unprocessed_files(files, status_master, status_commit, HEAD)
    /\ pc' = "summarize"
    /\ UNCHANGED <<file_id_calls, others, later, store, tracker, stop_flag, runs, task, processed_count,
                   last_processed_relpath, writers, ghost>>

\* resummarize._resummarize_file_async (lines 344-357): a path that is no
\* longer a file on disk makes it return at once (lines 345-346); for a file on
\* disk it calls store_file_info(db_pool, str(full_path), info), one argument
\* short of store_file_info(db_pool, root_path, rel_path, info), so the call
\* raises TypeError before anything is stored, summarized or marked
_resummarize_file_async_returns(on_disk) == ~on_disk

\* lines 77-102: summarize_file_task; the tasks are created, and make their
\* checks, in the order of the list
summarize_file_task(file_id, on_disk) ==
    /\ pc = "summarize"
    /\ file_id \in todo
    /\ \A g \in todo : file_id <= g
    /\ todo' = todo \ {file_id}
    /\ IF stop_flag
       THEN UNCHANGED <<tracker, marked>>
       ELSE IF is_processed(status_master, status_commit, "file", file_id, HEAD)
       THEN UNCHANGED <<tracker, marked>>
       ELSE IF _resummarize_file_async_returns(on_disk)
       THEN \* line 97: mark processed only on success
            /\ status_master' = mark_master(status_master, "file", file_id)
            /\ status_commit' = mark_commit(status_commit, file_id, HEAD)
            /\ status_times' =
                  mark_processed_times(status_times, status_master, file_id, HEAD)
            /\ marked' = marked \cup {<<"file", file_id, HEAD>>}
            /\ UNCHANGED <<pending, file_summaries, function_summaries>>
       ELSE \* lines 99-102: the exception is logged
            UNCHANGED <<tracker, marked>>
    /\ UNCHANGED <<file_id_calls, others, later, store, stop_flag, pc, runs, task, processed_count,
                   last_processed_relpath, writers,
                   passes, enqueued, extracted, faults, summaries, was_cancelled>>

\* lines 109-159: every task is done; the code map is built (a read) and returned
finish_run ==
    /\ pc = "summarize"
    /\ todo = {}
    /\ pc' = "idle"
    /\ was_cancelled' = (was_cancelled \/ stop_flag)
    /\ UNCHANGED <<file_id_calls, others, later, store, tracker, stop_flag, runs, task, processed_count,
                   last_processed_relpath, writers, todo,
                   passes, enqueued, extracted, faults, summaries, marked>>

\* lines 30-33: _handle_sigint; nothing ever resets the flag
_handle_sigint ==
    /\ ~stop_flag
    /\ pc # "idle"
    /\ stop_flag' = TRUE
    /\ UNCHANGED <<file_id_calls, others, later, store, tracker, pc, runs, task, processed_count,
                   last_processed_relpath, writers, todo, ghost>>

\* the process ends between two runs and a new one is started: the module
\* global _stop_flag is False again (line 27), and the daemon writer threads of
\* the old process are gone (code_map_builder line 68, daemon=True)
restart ==
    /\ pc = "idle"
    /\ runs > 0
    /\ stop_flag \/ \E w \in Writers : writers[w].state \in {"idle", "storing"}
    /\ stop_flag' = FALSE
    /\ writers' = [w \in Writers |->
                     IF writers[w].state \in {"idle", "storing"}
                     THEN [state |-> "killed", q |-> <<>>, pass |-> 0]
                     ELSE writers[w]]
    /\ passes' = [i \in 1..Len(passes) |->
                     IF passes[i].st = "running"
                     THEN [passes[i] EXCEPT !.st = "killed"]
                     ELSE passes[i]]
    /\ UNCHANGED <<file_id_calls, others, later, store, tracker, pc, runs, task, processed_count,
                   last_processed_relpath, todo,
                   enqueued, extracted, faults, summaries, marked, was_cancelled>>

(***************************************************************************)
(* actions/resummarize.py: summarize_file_in_db, the summarization entry   *)
(* point that marks a file processed.  The two LLM calls either return     *)
(* their texts or raise.                                                   *)
(***************************************************************************)
summarize_file_in_db(file_id, commit_sha, llm_ok) ==
    /\ pc = "idle"
    /\ summaries < MaxSummaries
    /\ file_id \in 1..Len(files)
    /\ summaries' = summaries + 1
    /\ IF llm_ok
       THEN /\ file_summaries' =
                  insert_file_summary(file_summaries, file_id, commit_sha, "s1", "s2")
            /\ status_master' = mark_master(status_master, "file", file_id)
            /\ status_commit' = mark_commit(status_commit, file_id, commit_sha)
            /\ status_times' =
                  mark_processed_times(status_times, status_master, file_id, commit_sha)
            /\ marked' = marked \cup {<<"file", file_id, commit_sha>>}
            /\ UNCHANGED <<pending, function_summaries>>
       ELSE UNCHANGED <<tracker, marked>>
    /\ UNCHANGED <<file_id_calls, others, later, store, proc, passes, enqueued, extracted, faults, was_cancelled>>

(***************************************************************************)
(* Spec: one process in which run_full_analysis is called up to MaxRuns    *)
(* times, one call after the other.                                        *)
(***************************************************************************)
Next ==
    \/ StartRun
    \/ \E p \in Paths : process_file_start(p)
    \/ \E p \in Paths : process_file_done(p)
    \/ \E p \in Paths : process_file_error(p)
    \/ StopWriter
    \/ JoinWriter
    \/ JoinTimeout
    \/ \E w \in Writers : writer_get(w)
    \/ \E w \in Writers : writer_store(w)
    \/ \E w \in Writers : writer_store_failed(w)
    \/ list_unprocessed
    \/ \E f \in 1..Len(files), on_disk \in BOOLEAN : summarize_file_task(f, on_disk)
    \/ finish_run
    \/ _handle_sigint

Spec == Init /\ [][Next]_vars

(***************************************************************************)
(* SpecQuiet: the behaviours of Spec in which no signal arrives, every     *)
(* extraction succeeds and no store_file_info call raises.                 *)
(***************************************************************************)
NextQuiet ==
    \/ StartRun
    \/ \E p \in Paths : process_file_start(p)
    \/ \E p \in Paths : process_file_done(p)
    \/ StopWriter
    \/ JoinWriter
    \/ JoinTimeout
    \/ \E w \in Writers : writer_get(w)
    \/ \E w \in Writers : writer_store(w)
    \/ list_unprocessed
    \/ \E f \in 1..Len(files), on_disk \in BOOLEAN : summarize_file_task(f, on_disk)
    \/ finish_run

SpecQuiet == Init /\ [][NextQuiet]_vars

(***************************************************************************)
(* SpecJoined: calls of run_full_analysis and of the summarization entry   *)
(* point, one after the other, in processes that may be restarted between  *)
(* two calls; every writer.join returns because the writer thread has      *)
(* ended.                                                                  *)
(***************************************************************************)
NextJoined ==
    \/ StartRun
    \/ \E p \in Paths : process_file_start(p)
    \/ \E p \in Paths : process_file_done(p)
    \/ \E p \in Paths : process_file_error(p)
    \/ StopWriter
    \/ JoinWriter
    \/ \E w \in Writers : writer_get(w)
    \/ \E w \in Writers : writer_store(w)
    \/ \E w \in Writers : writer_store_failed(w)
    \/ list_unprocessed
    \/ \E f \in 1..Len(files), on_disk \in BOOLEAN : summarize_file_task(f, on_disk)
    \/ finish_run
    \/ _handle_sigint
    \/ restart
    \/ \E f \in 1..Len(files), ok \in BOOLEAN : summarize_file_in_db(f, HEAD, ok)

SpecJoined == Init /\ [][NextJoined]_vars

(***************************************************************************)
(* SpecPipeline: one call of parse_and_store_entire_codebase in a fresh    *)
(* process, up to its return and the end of its writer thread.             *)
(***************************************************************************)
NextPipeline ==
    \/ StartRun
    \/ \E p \in Paths : process_file_start(p)
    \/ \E p \in Paths : process_file_done(p)
    \/ \E p \in Paths : process_file_error(p)
    \/ StopWriter
    \/ JoinWriter
    \/ JoinTimeout
    \/ \E w \in Writers : writer_get(w)
    \/ \E w \in Writers : writer_store(w)
    \/ \E w \in Writers : writer_store_failed(w)
    \/ _handle_sigint

SpecPipeline == Init /\ [][NextPipeline]_vars

(***************************************************************************)
(* SpecTracker: the processing-status tracker under any sequence of        *)
(* mark_processed calls for files and functions (both tables number their  *)
(* rows from 1).                                                           *)
(***************************************************************************)
\* db_utils.mark_processed: both writes and the commit succeed.  While a
\* pooled connection holds an open write transaction every other connection's
\* write fails (database is locked), so a call that succeeds runs on that
\* connection and its conn.commit() (line 181) commits the rows left there too.
mark_processed(item_type, item_id, commit_sha) ==
    /\ status_master' = mark_master(status_master \cup pending.master, item_type, item_id)
    /\ status_commit' = mark_commit(status_commit \cup pending.commits, item_id, commit_sha)
    /\ status_times' = mark_processed_times(status_times, status_master \cup pending.master,
                                            item_id, commit_sha)
    /\ pending' = NoPending
    /\ marked' = marked \cup {<<item_type, item_id, commit_sha>>}
    /\ UNCHANGED <<file_id_calls, others, later, store, file_summaries, function_summaries, proc, passes, enqueued,
                   extracted, faults, summaries, was_cancelled>>

\* db_utils.mark_processed raises: at the first execute (k = 1), at the second
\* (k = 2, e.g. NOT NULL or disk error) or at conn.commit() (k = 3, e.g.
\* database is locked in rollback-journal mode).  There is no rollback: the
\* finally clause (lines 182-183) releases the connection with what was
\* written so far in its open transaction, unless SQLite itself rolled the
\* transaction back on the failed commit.
mark_processed_raises(item_type, item_id, commit_sha, k, rolled_back) ==
    /\ faults < MaxFaults
    /\ faults' = faults + 1
    /\ LET m1 == mark_master(status_master \cup pending.master, item_type, item_id)
           c1 == mark_commit(status_commit \cup pending.commits, item_id, commit_sha)
       IN  pending' =
             CASE k = 1 -> pending
               [] k = 2 -> [master |-> m1 \ status_master, commits |-> pending.commits]
               [] OTHER -> IF rolled_back THEN NoPending
                           ELSE [master |-> m1 \ status_master,
                                 commits |-> c1 \ status_commit]
    /\ LET t1 == mark_processed_times(status_times, status_master \cup pending.master,
                                      item_id, commit_sha)
       IN  status_times' =
             CASE k = 1 -> status_times
               [] k = 2 -> [status_times EXCEPT !.first_seen_at = t1.first_seen_at]
               [] OTHER -> IF rolled_back THEN status_times ELSE t1
    /\ UNCHANGED <<file_id_calls, others, later, store, status_master, status_commit, file_summaries,
                   function_summaries, proc, passes, enqueued, extracted, summaries,
                   marked, was_cancelled>>

NextTracker ==
    \E t \in ItemTypes, i \in Items, c \in Commits : mark_processed(t, i, c)

SpecTracker == Init /\ [][NextTracker]_vars

(***************************************************************************)
(* Direct use of the store: store_file_info and the summary helpers called *)
(* one after the other on a store of any history.                          *)
(***************************************************************************)
Ops == Len(passes) + Cardinality(marked) + summaries

\* a call of store_file_info for the FileFacts of path p begins, in the writer
\* thread (_DBWriter.run line 96) or in the thread of a caller such as
\* code_analysis/summarization.resummarize_file
store_file_info_call(p) ==
    /\ \A w \in Writers : writers[w].state # "storing"
    /\ passes' = Append(passes, [path |-> p, w |-> 1, next |-> 1,
                                 rows |-> 0, st |-> "running"])
    /\ writers' = [writers EXCEPT ![1] = [state |-> "storing", q |-> <<>>,
                                          pass |-> Len(passes) + 1]]
    /\ UNCHANGED <<file_id_calls, others, later, store, tracker, stop_flag, pc, runs, task, processed_count,
                   last_processed_relpath, todo, enqueued, extracted, faults,
                   summaries, marked, was_cancelled>>

\* db_utils.insert_file_summary: the upsert and its commit succeed; the commit
\* (line 319) also commits an open transaction left on the connection
insert_file_summary_call(file_id, commit_sha, summary, summary_refined) ==
    /\ file_summaries' =
          insert_file_summary(file_summaries, file_id, commit_sha, summary, summary_refined)
    /\ summaries' = summaries + 1
    /\ status_master' = status_master \cup pending.master
    /\ status_commit' = status_commit \cup pending.commits
    /\ pending' = NoPending
    /\ UNCHANGED <<file_id_calls, others, later, store, function_summaries, status_times, proc,
                   passes, enqueued, extracted, faults, marked, was_cancelled>>

\* db_utils.insert_function_summary: the upsert and its commit succeed; the
\* commit (line 344) also commits an open transaction left on the connection
insert_function_summary_call(function_id, commit_sha, summary, summary_refined) ==
    /\ function_summaries' =
          insert_function_summary(function_summaries, function_id, commit_sha,
                                  summary, summary_refined)
    /\ summaries' = summaries + 1
    /\ status_master' = status_master \cup pending.master
    /\ status_commit' = status_commit \cup pending.commits
    /\ pending' = NoPending
    /\ UNCHANGED <<file_id_calls, others, later, store, file_summaries, status_times, proc,
                   passes, enqueued, extracted, faults, marked, was_cancelled>>

(***************************************************************************)
(* SpecStore: up to MaxOps calls of store_file_info, one after the other,  *)
(* each for any file of Sources; a helper call may raise.                  *)
(***************************************************************************)
NextStore ==
    \/ \E p \in Sources : Ops < MaxOps /\ store_file_info_call(p)
    \/ \E w \in Writers : writer_store(w)
    \/ \E w \in Writers : writer_store_failed(w)

SpecStore == Init /\ [][NextStore]_vars

(***************************************************************************)
(* SpecLedger: up to MaxOps store operations in any order: store_file_info *)
(* calls, mark_processed calls and summary writes.                         *)
(***************************************************************************)
NextLedger ==
    \/ \E p \in Sources : Ops < MaxOps /\ store_file_info_call(p)
    \/ \E w \in Writers : writer_store(w)
    \/ \E t \in ItemTypes, i \in Items, c \in Commits :
          Ops < MaxOps /\ mark_processed(t, i, c)
    \/ \E i \in Items, c \in Commits :
          Ops < MaxOps /\ insert_file_summary_call(i, c, "s1", "s2")
    \/ \E i \in Items, c \in Commits :
          Ops < MaxOps /\ insert_function_summary_call(i, c, "s1", "s2")

SpecLedger == Init /\ [][NextLedger]_vars

(***************************************************************************)
(* SpecSummaries: up to MaxWrites summary writes with any texts.           *)
(***************************************************************************)
NextSummaries ==
    \/ \E i \in Items, c \in Commits, s1 \in Texts, s2 \in Texts :
          summaries < MaxWrites /\ insert_file_summary_call(i, c, s1, s2)
    \/ \E i \in Items, c \in Commits, s1 \in Texts, s2 \in Texts :
          summaries < MaxWrites /\ insert_function_summary_call(i, c, s1, s2)

SpecSummaries == Init /\ [][NextSummaries]_vars

(***************************************************************************)
(* SpecFailOpen: mark_processed calls that succeed or raise, and summary   *)
(* writes, on the connections of one pool.                                 *)
(***************************************************************************)
NextFailOpen ==
    \/ \E t \in ItemTypes, i \in Items, c \in Commits :
          Ops < MaxOps /\ mark_processed(t, i, c)
    \/ \E t \in ItemTypes, i \in Items, c \in Commits, k \in 1..3, rb \in BOOLEAN :
          mark_processed_raises(t, i, c, k, rb)
    \/ \E i \in Items, c \in Commits :
          Ops < MaxOps /\ insert_file_summary_call(i, c, "s1", "s2")

SpecFailOpen == Init /\ [][NextFailOpen]_vars

(***************************************************************************)
(* db_utils.insert_or_get_file_id called directly by the threads of        *)
(* Callers (code_analysis/summarization.resummarize_file and               *)
(* actions/resummarize._resummarize_file_async call it), each on its own   *)
(* pooled connection.  The call has two steps: the INSERT OR IGNORE with   *)
(* its commit, which SQLite runs under the write lock of the database, and *)
(* the SELECT of the id.                                                   *)
(***************************************************************************)
\* lines 208-212: acquire a connection, INSERT OR IGNORE, commit
insert_or_get_file_id_insert(t, path) ==
    /\ file_id_calls.open[t] = 0
    /\ files' = insert_or_get_file_id(files, path)
    /\ file_id_calls' = [file_id_calls EXCEPT !.open[t] = path, !.n = @ + 1]
    /\ UNCHANGED <<file_symbols, functions, function_calls, tracker, proc, ghost, others, later>>

\* lines 213-217: SELECT file_id, return it (None is 0), release the connection
insert_or_get_file_id_select(t) ==
    /\ file_id_calls.open[t] # 0
    /\ file_id_calls' =
          [file_id_calls EXCEPT
             !.open[t] = 0,
             !.returned = @ \cup {<<file_id_calls.open[t],
                                    file_id_of(files, file_id_calls.open[t])>>}]
    /\ UNCHANGED <<store, tracker, proc, ghost, others, later>>

(***************************************************************************)
(* SpecFiles: up to MaxOps operations that write the files table, in any   *)
(* interleaving: direct calls of insert_or_get_file_id by the threads of   *)
(* Callers and calls of store_file_info.                                   *)
(***************************************************************************)
NextFiles ==
    \/ \E t \in Callers, p \in Sources :
          Ops + file_id_calls.n < MaxOps /\ insert_or_get_file_id_insert(t, p)
    \/ \E t \in Callers : insert_or_get_file_id_select(t)
    \/ \E p \in Sources :
          Ops + file_id_calls.n < MaxOps /\ store_file_info_call(p)
    \/ \E w \in Writers : writer_store(w)

SpecFiles == Init /\ [][NextFiles]_vars

(***************************************************************************)
(* Properties.                                                             *)

(***************************************************************************)
(* The summarization callers and the connection pool.  pool.acquire() is   *)
(* Queue.get without a timeout: it blocks while the queue is empty.  A     *)
(* store helper acquires a connection, runs and releases it.               *)
(***************************************************************************)
\* code_analysis/summarization.resummarize_file line 23: conn = db_pool.acquire()
resummarize_file_acquire(t, path) ==
    /\ conns.at[t] = "idle"
    /\ conns.free > 0
    /\ conns' = [conns EXCEPT !.free = @ - 1, !.at[t] = "rf_holding",
                              !.held[t] = @ + 1, !.item[t] = path]
    /\ UNCHANGED <<store, tracker, proc, ghost, later, file_id_calls, watchdogs, parsing, grammar_cache, extraction>>

\* line 26: insert_or_get_file_id begins, its pool.acquire() (db_utils line 208) returns
resummarize_file_get_id_begin(t) ==
    /\ conns.at[t] = "rf_holding"
    /\ conns.free > 0
    /\ conns' = [conns EXCEPT !.free = @ - 1, !.at[t] = "rf_get_id"]
    /\ UNCHANGED <<store, tracker, proc, ghost, later, file_id_calls, watchdogs, parsing, grammar_cache, extraction>>

\* line 26: insert_or_get_file_id inserts, selects, releases its connection, returns
resummarize_file_get_id_end(t) ==
    /\ conns.at[t] = "rf_get_id"
    /\ files' = insert_or_get_file_id(files, conns.item[t])
    /\ conns' = [conns EXCEPT !.free = @ + 1, !.at[t] = "rf_summarize"]
    /\ UNCHANGED <<file_symbols, functions, function_calls, tracker, proc, ghost, later,
                   file_id_calls, watchdogs, parsing, grammar_cache, extraction>>

\* resummarize_file_raises as it would be without the finally clause of lines
\* 46-47: the exception leaves the function with conn not put back
resummarize_file_raises_leaks(t) ==
    /\ conns.at[t] = "rf_summarize"
    /\ conns' = [conns EXCEPT !.at[t] = "idle", !.held[t] = @ - 1, !.item[t] = 0]
    /\ UNCHANGED <<store, tracker, proc, ghost, later, file_id_calls, watchdogs, parsing, grammar_cache, extraction>>

\* lines 27-29 and 46-47: the call of summarize_file_in_db binds info to
\* rel_path and leaves info unbound, a TypeError; the finally clause releases conn
resummarize_file_raises(t) ==
    /\ conns.at[t] = "rf_summarize"
    /\ conns' = [conns EXCEPT !.free = @ + 1, !.at[t] = "idle",
                              !.held[t] = @ - 1, !.item[t] = 0]
    /\ UNCHANGED <<store, tracker, proc, ghost, later, file_id_calls, watchdogs, parsing, grammar_cache, extraction>>

\* actions/resummarize._resummarize_file_async line 350: conn = db_pool.acquire()
_resummarize_file_async_acquire(t) ==
    /\ conns.at[t] = "idle"
    /\ conns.free > 0
    /\ conns' = [conns EXCEPT !.free = @ - 1, !.at[t] = "ra_holding", !.held[t] = @ + 1]
    /\ UNCHANGED <<store, tracker, proc, ghost, later, file_id_calls, watchdogs, parsing, grammar_cache, extraction>>

\* lines 352 and 373-374: store_file_info is called with three of its four
\* arguments, a TypeError before its body runs; the finally clause releases conn
_resummarize_file_async_raises(t) ==
    /\ conns.at[t] = "ra_holding"
    /\ conns' = [conns EXCEPT !.free = @ + 1, !.at[t] = "idle", !.held[t] = @ - 1]
    /\ UNCHANGED <<store, tracker, proc, ghost, later, file_id_calls, watchdogs, parsing, grammar_cache, extraction>>

\* actions/resummarize.summarize_file_in_db lines 127-134, called directly:
\* the two generate_llm_summary calls are in progress
summarize_file_in_db_llm(t, file_id) ==
    /\ conns.at[t] = "idle"
    /\ file_id \in 1..Len(files)
    /\ conns' = [conns EXCEPT !.at[t] = "llm", !.item[t] = file_id]
    /\ UNCHANGED <<store, tracker, proc, ghost, later, file_id_calls, watchdogs, parsing, grammar_cache, extraction>>

\* lines 139-144: the LLM calls returned and insert_file_summary and
\* mark_processed run, each on a connection it acquires and releases, or an
\* LLM call raised and the exception is logged and raised again
summarize_file_in_db_store(t, llm_ok) ==
    /\ conns.at[t] = "llm"
    /\ llm_ok => conns.free > 0
    /\ conns' = [conns EXCEPT !.at[t] = "idle", !.item[t] = 0]
    /\ IF llm_ok
       THEN /\ file_summaries' =
                  insert_file_summary(file_summaries, conns.item[t], HEAD, "s1", "s2")
            /\ status_master' =
                  mark_master(status_master \cup pending.master, "file", conns.item[t])
            /\ status_commit' =
                  mark_commit(status_commit \cup pending.commits, conns.item[t], HEAD)
            /\ status_times' =
                  mark_processed_times(status_times, status_master \cup pending.master,
                                       conns.item[t], HEAD)
            /\ pending' = NoPending
            /\ marked' = marked \cup {<<"file", conns.item[t], HEAD>>}
            /\ UNCHANGED function_summaries
       ELSE UNCHANGED <<tracker, marked>>
    /\ UNCHANGED <<store, proc, passes, enqueued, extracted, faults, summaries,
                   was_cancelled, file_id_calls, watchdogs, parsing, grammar_cache, extraction,
                   later>>

(***************************************************************************)
(* SpecPool: the threads of Callers summarize files through one pool of    *)
(* MaxConns connections, in any interleaving.                              *)
(***************************************************************************)
NextPool ==
    \/ \E t \in Callers, p \in Sources : resummarize_file_acquire(t, p)
    \/ \E t \in Callers : resummarize_file_get_id_begin(t)
    \/ \E t \in Callers : resummarize_file_get_id_end(t)
    \/ \E t \in Callers : resummarize_file_raises(t)
    \/ \E t \in Callers : _resummarize_file_async_acquire(t)
    \/ \E t \in Callers : _resummarize_file_async_raises(t)
    \/ \E t \in Callers, i \in Items : summarize_file_in_db_llm(t, i)
    \/ \E t \in Callers, ok \in BOOLEAN : summarize_file_in_db_store(t, ok)

SpecPool == Init /\ [][NextPool]_vars


(***************************************************************************)
(* code_map_builder._process_file, the parse step (lines 190-240).         *)
(***************************************************************************)
\* lines 149-168
can_create_per_thread_parser(c) ==
    IF c.kind = "none" THEN FALSE
    ELSE IF c.ts /\ c.kind = "parser" THEN c.lang
    ELSE c.ts /\ c.lang

\* lines 193-216: whether the task parses inside _PARSE_LOCK; created is
\* whether TS_Parser() and set_language returned without raising
need_lock(c, created) ==
    ~(can_create_per_thread_parser(c) /\ c.ts /\ c.lang /\ created /\ c.set_language)

\* ParserUsed as it would be if every task parsed with parser_or_language
ParserUsed_shared(c, p, locked) == SharedParser

\* lines 218-239: the parser handed to extract_info_from_file by task p
ParserUsed(c, p, locked) ==
    IF locked
    THEN IF c.ts /\ c.kind = "parser" THEN SharedParser
         ELSE IF c.ts /\ c.lang THEN <<"tmp", p>>
         ELSE SharedParser
    ELSE <<"local", p>>

\* lines 148-177: parse_and_store_entire_codebase looks at parser_or_language
parse_setup(c) ==
    /\ parsing.cfg = NoConfig
    /\ parsing' = [parsing EXCEPT !.cfg = c]
    /\ UNCHANGED <<store, tracker, proc, ghost, later, file_id_calls, watchdogs, conns, grammar_cache, extraction>>

\* lines 183-217: a worker picks the task up and creates its parser, or finds
\* that it has to take the lock
_process_file_parse_start(p, created) ==
    /\ parsing.cfg # NoConfig
    /\ parsing.at[p] = "none"
    /\ Cardinality({q \in Paths : parsing.at[q] \in {"waiting", "parsing"}}) < MaxWorkers
    /\ IF need_lock(parsing.cfg, created)
       THEN parsing' = [parsing EXCEPT !.at[p] = "waiting"]
       ELSE parsing' = [parsing EXCEPT !.at[p] = "parsing",
                                       !.using[p] = ParserUsed(parsing.cfg, p, FALSE)]
    /\ UNCHANGED <<store, tracker, proc, ghost, later, file_id_calls, watchdogs, conns, grammar_cache, extraction>>

\* lines 219-236: the task enters _PARSE_LOCK and calls extract_info_from_file
_process_file_parse_locked(p) ==
    /\ parsing.at[p] = "waiting"
    /\ parsing.lock = 0
    /\ parsing' = [parsing EXCEPT !.at[p] = "parsing", !.lock = p,
                                  !.using[p] = ParserUsed(parsing.cfg, p, TRUE)]
    /\ UNCHANGED <<store, tracker, proc, ghost, later, file_id_calls, watchdogs, conns, grammar_cache, extraction>>

\* extract_info_from_file returns or raises; the with statement releases the lock
_process_file_parse_done(p) ==
    /\ parsing.at[p] = "parsing"
    /\ parsing' = [parsing EXCEPT !.at[p] = "done", !.using[p] = NoParser,
                                  !.lock = IF @ = p THEN 0 ELSE @]
    /\ UNCHANGED <<store, tracker, proc, ghost, later, file_id_calls, watchdogs, conns, grammar_cache, extraction>>

(***************************************************************************)
(* SpecParsers: the parse steps of the tasks of one run, for every kind of *)
(* parser_or_language.                                                     *)
(***************************************************************************)
NextParsers ==
    \/ \E c \in ParserConfigs : parse_setup(c)
    \/ \E p \in Paths, created \in BOOLEAN : _process_file_parse_start(p, created)
    \/ \E p \in Paths : _process_file_parse_locked(p)
    \/ \E p \in Paths : _process_file_parse_done(p)

SpecParsers == Init /\ [][NextParsers]_vars


(***************************************************************************)
(* code_analysis/parser.py: load_language and get_parser, called by the    *)
(* main thread (run_analysis lines 56-57).                                 *)
(***************************************************************************)
\* line 22: key = name.lower()
Lower(name) == IF name = "C" THEN "c" ELSE name

\* lines 18-28: load_language; calls counts the calls per name, loads the
\* get_language calls per key
load_language(name) ==
    LET key == Lower(name)
    IN  /\ grammar_cache.calls[name] < MaxLoads
        /\ IF key \in grammar_cache.languages
           THEN grammar_cache' = [grammar_cache EXCEPT !.calls[name] = @ + 1]
           ELSE grammar_cache' = [grammar_cache EXCEPT !.calls[name] = @ + 1,
                                                       !.languages = @ \cup {key},
                                                       !.loads[key] = @ + 1]
        /\ UNCHANGED <<store, tracker, proc, ghost, later, file_id_calls, watchdogs, conns, parsing, extraction>>

\* lines 34-44: get_parser for a language that load_language returned
get_parser(key) ==
    /\ key \in grammar_cache.languages
    /\ Len(grammar_cache.got) < MaxGets
    /\ IF grammar_cache.parsers[key] # 0
       THEN grammar_cache' =
              [grammar_cache EXCEPT
                 !.got = Append(@, [language |-> key,
                                    parser |-> grammar_cache.parsers[key]])]
       ELSE grammar_cache' =
              [grammar_cache EXCEPT
                 !.created = @ + 1,
                 !.parsers[key] = grammar_cache.created + 1,
                 !.got = Append(@, [language |-> key,
                                    parser |-> grammar_cache.created + 1])]
    /\ UNCHANGED <<store, tracker, proc, ghost, later, file_id_calls, watchdogs, conns, parsing, extraction>>

(***************************************************************************)
(* SpecGrammar: load_language and get_parser calls in any order.           *)
(***************************************************************************)
NextGrammar ==
    \/ \E n \in LanguageNames : load_language(n)
    \/ \E k \in LanguageKeys : get_parser(k)

SpecGrammar == Init /\ [][NextGrammar]_vars


(***************************************************************************)
(* code_extractor.py: extract_info_from_file, the functions of its result. *)
(* A file name is the sequence of its characters.  A syntax tree is the    *)
(* sequence of the children of its root; a node has its type, whether one  *)
(* of its children is a function_declarator or pointer_declarator, the     *)
(* identifier find_identifier returns for it ("" is None) and its children.*)
(***************************************************************************)
\* number of children of the root node
MaxTreeNodes == 1

Filenames ==
    {<<"a", ".", "c">>, <<"a", ".", "h">>, <<"h", ".", "c">>,
     <<"a", ".", "h", "p", "p">>, <<"a", ".", "H">>}

NodeTypes == {"function_definition", "declaration", "expression_statement"}

LeafNodes ==
    [type : NodeTypes, func_decl : BOOLEAN, identifier : {"f", ""}, children : {<<>>}]

Nodes ==
    LeafNodes \cup
    [type : NodeTypes, func_decl : BOOLEAN, identifier : {"f", ""},
     children : {<<k>> : k \in LeafNodes}]

Trees == UNION {[1..n -> Nodes] : n \in 0..MaxTreeNodes}

\* str.endswith
EndsWith(str, suffix) ==
    /\ Len(str) >= Len(suffix)
    /\ \A i \in 1..Len(suffix) : str[Len(str) - Len(suffix) + i] = suffix[i]

\* a node with the lines it spans
Placed(node, start_line, end_line) ==
    [type |-> node.type, func_decl |-> node.func_decl, identifier |-> node.identifier,
     start_line |-> start_line, end_line |-> end_line]

\* the nodes of the tree in the order walk visits them: a node, then its children
Preorder(tree) ==
    Concat([i \in 1..Len(tree) |->
              <<Placed(tree[i], 10 * i, 10 * i + 5)>> \o
              [j \in 1..Len(tree[i].children) |->
                 Placed(tree[i].children[j], 10 * i + j, 10 * i + j)]])

IsFunctionDefinition(node) == node.type = "function_definition"

\* lines 74-84: a declaration with a function or pointer declarator and a name
IsPrototype(node) ==
    node.type = "declaration" /\ node.func_decl /\ node.identifier # ""

\* lines 51-69
extract_functions_from_tree(tree) ==
    LET defs == SelectSeq(Preorder(tree), IsFunctionDefinition)
    IN  [i \in 1..Len(defs) |->
           [name |-> defs[i].identifier, start_line |-> defs[i].start_line,
            end_line |-> defs[i].end_line, prototype |-> FALSE]]

\* lines 71-96
extract_prototypes(tree) ==
    LET decls == SelectSeq(Preorder(tree), IsPrototype)
    IN  [i \in 1..Len(decls) |->
           [name |-> decls[i].identifier, start_line |-> decls[i].start_line,
            end_line |-> decls[i].end_line, prototype |-> TRUE]]

\* PrototypesOf as it would be if prototypes were extracted from every file
PrototypesOf_every_file(filename, tree) == extract_prototypes(tree)

\* lines 301-303
PrototypesOf(filename, tree) ==
    IF EndsWith(filename, <<".", "h">>) THEN extract_prototypes(tree) ELSE <<>>

\* lines 291-294: the file is read and the parser returns its tree
extract_info_from_file_parse(filename, tree) ==
    /\ extraction.state = "none"
    /\ extraction' = [state |-> "parsed", filename |-> filename, tree |-> tree,
                      functions |-> <<>>]
    /\ UNCHANGED <<store, tracker, proc, ghost, later, file_id_calls, watchdogs, conns, parsing,
                   grammar_cache>>

\* lines 296-314: the extractors run; all_functions = funcs + prototypes
extract_info_from_file_extract ==
    /\ extraction.state = "parsed"
    /\ extraction' =
          [extraction EXCEPT
             !.state = "extracted",
             !.functions = extract_functions_from_tree(extraction.tree)
                           \o PrototypesOf(extraction.filename, extraction.tree)]
    /\ UNCHANGED <<store, tracker, proc, ghost, later, file_id_calls, watchdogs, conns, parsing,
                   grammar_cache>>

(***************************************************************************)
(* SpecExtract: extract_info_from_file for any file name of Filenames and  *)
(* any tree of Trees.                                                      *)
(***************************************************************************)
NextExtract ==
    \/ /\ extraction.state = "none"
       /\ \E f \in Filenames, t \in Trees : extract_info_from_file_parse(f, t)
    \/ extract_info_from_file_extract

SpecExtract == Init /\ [][NextExtract]_vars


(***************************************************************************)
(* _watchdog (lines 267-276): a daemon thread that logs the progress every *)
(* interval seconds until done_event is set (line 295, before              *)
(* writer.stop()).  Its reports change nothing.                            *)
(***************************************************************************)
_watchdog_stops(w) ==
    /\ w \in 1..runs
    /\ w \notin watchdogs
    /\ w < runs \/ pc # "dispatch"
    /\ watchdogs' = watchdogs \cup {w}
    /\ UNCHANGED <<store, tracker, proc, ghost, later, file_id_calls, conns, parsing,
                   grammar_cache, extraction>>

(***************************************************************************)
(* SpecTerminates: SpecPipeline with the watchdog, under fair scheduling:  *)
(* a picked-up task returns or raises, a free worker picks up the next     *)
(* future, the writer thread takes the next item and each of its helper    *)
(* calls returns or raises, the main thread goes on when the futures are   *)
(* done and when join returns, the watchdog wakes up: some thread of each   *)
(* kind that can take a step does so.  The caller and the signal are under *)
(* no obligation.                                                          *)
(***************************************************************************)
NextTerminates ==
    \/ StartRun
    \/ \E p \in Paths : process_file_start(p)
    \/ \E p \in Paths : process_file_done(p)
    \/ \E p \in Paths : process_file_error(p)
    \/ StopWriter
    \/ JoinWriter
    \/ JoinTimeout
    \/ \E w \in Writers : writer_get(w)
    \/ \E w \in Writers : writer_store(w)
    \/ \E w \in Writers : writer_store_failed(w)
    \/ \E w \in Writers : _watchdog_stops(w)
    \/ _handle_sigint

SpecTerminates ==
    /\ Init /\ [][NextTerminates]_vars
    /\ WF_vars(\E p \in Paths : process_file_start(p))
    /\ WF_vars(\E p \in Paths : process_file_done(p) \/ process_file_error(p))
    /\ WF_vars(StopWriter)
    /\ WF_vars(JoinWriter \/ JoinTimeout)
    /\ WF_vars(\E w \in Writers : writer_get(w))
    /\ WF_vars(\E w \in Writers : writer_store(w) \/ writer_store_failed(w))
    /\ WF_vars(\E w \in Writers : _watchdog_stops(w))

(***************************************************************************)
(* SpecUnify: code_analysis/code_map.py build_code_map_from_db from line   *)
(* 112 on, applied to every func_map of up to MaxFuncRows rows.  A row of  *)
(* func_map is what lines 66-110 leave: the fields of a functions row of a  *)
(* known file, its deduplicated callers and callees, and func_summary ("" *)
(* for no summary).  The rows come in function_id order.                   *)
(***************************************************************************)
MaxFuncRows == 2

\* (path, name, start_line, end_line) of the rows
UnifyKeys == {<<1, "a", 1, 3>>, <<1, "b", 5, 7>>}

FuncMapRows ==
    [key : UnifyKeys,
     return_type : {"", "int"},
     parameters : {<<>>, <<"int x">>},
     prototype : {FALSE},
     callers : {<<>>, <<"m">>},
     callees : {<<>>, <<"n">>},
     func_summary : {"", "s"}]

FuncMaps == UNION {[1..n -> FuncMapRows] : n \in 0..MaxFuncRows}

\* lines 117-125: the row fobj meets the entry existing of its key
unify_merge(existing, fobj) ==
    [existing EXCEPT
        !.callers = Dedup(existing.callers \o fobj.callers),
        !.callees = Dedup(existing.callees \o fobj.callees),
        !.func_summary = IF existing.func_summary = "" /\ fobj.func_summary # ""
                         THEN fobj.func_summary
                         ELSE existing.func_summary]

\* lines 112-125: unify_map after the loop over func_map.values(), as the
\* sequence of its values in insertion order
RECURSIVE unify_map(_)
unify_map(func_map) ==
    IF func_map = <<>> THEN <<>>
    ELSE LET um == unify_map(SubSeq(func_map, 1, Len(func_map) - 1))
             fobj == func_map[Len(func_map)]
         IN  IF \E k \in 1..Len(um) : um[k].key = fobj.key
             THEN [k \in 1..Len(um) |->
                     IF um[k].key = fobj.key THEN unify_merge(um[k], fobj) ELSE um[k]]
             ELSE Append(um, fobj)

\* lines 127-145: the function entries attached to the code map
build_code_map_from_db_unify(func_map) ==
    /\ assembly' = [state |-> "attached", func_map |-> func_map,
                    functions |-> unify_map(func_map)]
    /\ UNCHANGED <<store, tracker, proc, ghost, file_id_calls, others, fetches>>

NextUnify ==
    /\ assembly.state = "none"
    /\ \E func_map \in FuncMaps : build_code_map_from_db_unify(func_map)

SpecUnify == Init /\ [][NextUnify]_vars

(***************************************************************************)
(* SpecStamps: mark_processed calls, any number of them for each of up to   *)
(* MaxWrites (item_type, item_id, commit), while the clock behind          *)
(* CURRENT_TIMESTAMP advances, up to MaxTime.                              *)
(***************************************************************************)
MaxTime == 2

\* CURRENT_TIMESTAMP moves on to the next second
clock_tick ==
    /\ status_times.now < MaxTime
    /\ status_times' = [status_times EXCEPT !.now = @ + 1]
    /\ UNCHANGED <<file_id_calls, others, later, store, status_master, status_commit,
                   pending, file_summaries, function_summaries, proc, ghost>>

NextStamps ==
    \/ \E t \in ItemTypes, i \in Items, c \in Commits :
          /\ <<t, i, c>> \in marked \/ Cardinality(marked) < MaxWrites
          /\ mark_processed(t, i, c)
    \/ clock_tick

SpecStamps == Init /\ [][NextStamps]_vars

(***************************************************************************)
(* SpecCodeMap: the threads of Callers call build_code_map_from_db on one  *)
(* pool of MaxConns connections while up to MaxStored store_file_info      *)
(* calls fill the store, each helper call of which needs a connection of   *)
(* the pool.  Scheduling is fair to the threads that build: a pool.acquire()*)
(* returns when a connection stays available, and a thread that can go on  *)
(* does.                                                                   *)
(***************************************************************************)
MaxStored == 1

\* code_map.py line 14: conn = db_pool.acquire() returns; lines 18-96 read the
\* tables on conn; the loop of lines 98-105 will call
\* fetch_function_name_and_file twice for every function_calls row whose ends
\* are in func_map
build_code_map_from_db_acquire(t) ==
    /\ conns.at[t] = "idle"
    /\ conns.free > 0
    /\ conns' = [conns EXCEPT !.free = @ - 1, !.at[t] = "cm_holding", !.held[t] = @ + 1]
    /\ fetches' = [fetches EXCEPT ![t] = 2 * Len(UsedCalls(files, functions, function_calls))]
    /\ UNCHANGED <<store, tracker, proc, ghost, file_id_calls, watchdogs, parsing,
                   grammar_cache, extraction, assembly>>

\* lines 101-102 and db_utils line 354: fetch_function_name_and_file is called
\* and its pool.acquire() returns
build_code_map_from_db_fetch_begin(t) ==
    /\ conns.at[t] = "cm_holding"
    /\ fetches[t] > 0
    /\ conns.free > 0
    /\ conns' = [conns EXCEPT !.free = @ - 1, !.at[t] = "cm_fetch"]
    /\ UNCHANGED <<store, tracker, proc, ghost, file_id_calls, watchdogs, parsing,
                   grammar_cache, extraction, later>>

\* db_utils lines 355-373: fetch_function_name_and_file selects, releases its
\* connection and returns
build_code_map_from_db_fetch_end(t) ==
    /\ conns.at[t] = "cm_fetch"
    /\ conns' = [conns EXCEPT !.free = @ + 1, !.at[t] = "cm_holding"]
    /\ fetches' = [fetches EXCEPT ![t] = @ - 1]
    /\ UNCHANGED <<store, tracker, proc, ghost, file_id_calls, watchdogs, parsing,
                   grammar_cache, extraction, assembly>>

\* lines 107-151: the loop is over; the map is assembled and returned, the
\* finally clause releases conn
build_code_map_from_db_return(t) ==
    /\ conns.at[t] = "cm_holding"
    /\ fetches[t] = 0
    /\ conns' = [conns EXCEPT !.free = @ + 1, !.at[t] = "idle", !.held[t] = @ - 1]
    /\ UNCHANGED <<store, tracker, proc, ghost, file_id_calls, watchdogs, parsing,
                   grammar_cache, extraction, later>>

NextCodeMap ==
    \/ \E p \in Sources : Len(passes) < MaxStored /\ store_file_info_call(p)
    \/ \E w \in Writers : conns.free > 0 /\ writer_store(w)
    \/ \E t \in Callers : build_code_map_from_db_acquire(t)
    \/ \E t \in Callers : build_code_map_from_db_fetch_begin(t)
    \/ \E t \in Callers : build_code_map_from_db_fetch_end(t)
    \/ \E t \in Callers : build_code_map_from_db_return(t)

SpecCodeMap ==
    /\ Init
    /\ [][NextCodeMap]_vars
    /\ \A t \in Callers :
         /\ WF_vars(build_code_map_from_db_fetch_begin(t))
         /\ WF_vars(build_code_map_from_db_fetch_end(t))
         /\ WF_vars(build_code_map_from_db_return(t))

(***************************************************************************)
Storing == {w \in Writers : writers[w].state = "storing"}

\* the paths writer w has handed to store_file_info, in order
Taken(w) ==
    LET mine == SelectSeq(passes, LAMBDA r : r.w = w)
    IN  [i \in 1..Len(mine) |-> mine[i].path]

\* the items waiting in the queue of writer w (the sentinel 0 left out)
Waiting(w) == SelectSeq(writers[w].q, LAMBDA x : x # 0)

\* writer.stop() has been called for writer w
Stopped(w) == w < runs \/ (w = runs /\ pc # "dispatch")

\* store_file_info call i has put rows into the store, has not returned, and
\* rows of its FileFacts are still missing: a symbol or function row, or the
\* edge of a call pair that resolves in the present store
HalfWritten(i) ==
    LET ps == passes[i]
        info == Facts(ps.path)
        nsf == Len(Symbols(info)) + Len(info.functions)
        file_id == file_id_of(files, ps.path)
    IN  /\ ps.st # "ok"
        /\ ps.rows > 0
        /\ \/ ps.next <= 1 + nsf
           \/ \E j \in 1..Len(info.calls) :
                /\ j >= ps.next - 1 - nsf
                /\ store_call(functions, function_calls, file_id, info, info.calls[j])
                     # function_calls

FileProcessed(p) ==
    is_processed(status_master, status_commit, "file", file_id_of(files, p), HEAD)

\* C1: during a run of parse_and_store_entire_codebase the only thread that
\* executes store_file_info is the _DBWriter thread of that run, so no two
\* threads execute store_file_info at the same time.
C1_SingleWriter ==
    /\ pc \in {"dispatch", "join"} => \A w \in Storing : w = runs
    /\ Cardinality(Storing) <= 1

\* C2: once the pipeline has stopped (the function has returned and the writer
\* thread has ended), no file is left partially written, also when storing a
\* file failed part-way.
C2_NoPartialFileAfterStop ==
    (pc = "parsed" /\ writers[runs].state = "exited")
        => \A i \in 1..Len(passes) : ~HalfWritten(i)

\* C3: in every state a reader can see, the rows of each store_file_info call
\* are all visible or all invisible.
C3_ReaderNeverSeesHalfWritten ==
    ~\E i \in 1..Len(passes) : HalfWritten(i)

\* C4: a failing item does not end the writer thread: the thread ends only
\* after the sentinel, the failed item is not taken again, and every enqueued
\* item is handed to store_file_info exactly once, in arrival order.
C4_WriterSurvivesFailure ==
    \A w \in Writers :
        writers[w].state \in {"idle", "storing", "exited"} =>
            /\ Taken(w) \o Waiting(w) = enqueued[w]
            /\ writers[w].state = "exited" =>
                 /\ Stopped(w)
                 /\ writers[w].q = <<>>
                 /\ Taken(w) = enqueued[w]
                 /\ \A i \in 1..Len(passes) : passes[i].w = w => passes[i].st # "running"

\* a writer that ended on the sentinel after one item failed and a later item
\* was stored
C4_Witness ==
    \E w \in Writers :
        /\ writers[w].state = "exited"
        /\ \E i, j \in 1..Len(passes) :
             /\ i < j
             /\ passes[i].w = w /\ passes[i].st = "failed"
             /\ passes[j].w = w /\ passes[j].st = "ok"

\* C5: when parse_and_store_entire_codebase returns, the writer queue is empty,
\* no store_file_info call is in progress and the writer thread has ended.
C5_ReturnMeansDrained ==
    pc = "parsed" =>
        /\ writers[runs].state = "exited"
        /\ writers[runs].q = <<>>

\* C6: once the writer has stored the symbols, functions and call edges of a
\* file, the file is marked processed for HEAD.
C6_StoredThenMarked ==
    \A i \in 1..Len(passes) : passes[i].st = "ok" => FileProcessed(passes[i].path)

\* C7: no worker starts extracting a file that is already marked processed for
\* HEAD.
C7_NoReExtraction ==
    [][\A p \in Paths : process_file_start(p) => ~FileProcessed(p)]_vars

\* C8: once the cancellation flag is set, no worker begins a file whose
\* processing had not started.
C8_NoStartAfterCancel ==
    [][\A p \in Paths : process_file_start(p) => ~stop_flag]_vars

\* C9: when a run that was not cancelled ends, and an earlier run was
\* cancelled, every discovered file is marked processed for HEAD (stated for
\* the runs in which nothing has failed and every file has been stored).
C9_ResumedRunMarksAll ==
    [][(/\ finish_run
        /\ was_cancelled /\ ~stop_flag
        /\ faults = 0
        /\ enqueued[runs] = [i \in 1..MaxFiles |-> i]
        /\ \A w \in Writers : writers[w].state \in {"unborn", "exited"})
         => \A p \in Paths : FileProcessed(p)]_vars

\* C10: is_processed(item, C) is true once mark_processed(item, C) has
\* succeeded, and false for every item and commit that were not marked.
C10_ProcessedIffMarked ==
    \A t \in ItemTypes, i \in Items, c \in Commits :
        is_processed(status_master, status_commit, t, i, c) <=> <<t, i, c>> \in marked

\* C11: processing status never regresses: no step removes a row of
\* summary_status_commit or summary_status_master, and an (item, commit) pair
\* that is_processed reports processed is still reported processed after any
\* store operation (other marks, store_file_info steps, summary upserts).
C11_StatusNeverRegresses ==
    [][/\ status_commit \subseteq status_commit'
       /\ status_master \subseteq status_master'
       /\ \A t \in ItemTypes, i \in Items, c \in Commits :
            is_processed(status_master, status_commit, t, i, c)
                => is_processed(status_master', status_commit', t, i, c)]_vars

\* an item marked for a commit is still processed after another mark and a
\* store_file_info call or a summary write
C11_Witness ==
    /\ Cardinality(marked) >= 2
    /\ summaries > 0 \/ Len(files) > 0
    /\ \E m \in marked : is_processed(status_master, status_commit, m[1], m[2], m[3])

\* C12: fail-open: an item none of whose mark_processed calls has succeeded
\* is not reported processed for any commit, whatever ran after a
\* mark_processed call for it raised.
C12_FailOpen ==
    \A t \in ItemTypes, i \in Items, c \in Commits :
        (\A m \in marked : m[2] # i)
            => ~is_processed(status_master, status_commit, t, i, c)

\* C13: for every commit, get_unprocessed_files returns exactly the files
\* that is_processed reports unprocessed, get_unprocessed_functions exactly
\* such functions, and an item whose mark_processed succeeded for the commit
\* is not in the list of its type.
C13_UnprocessedListsExact ==
    \A c \in Commits :
        /\ get_unprocessed_files(files, status_master, status_commit, c)
             = {f \in 1..Len(files) :
                  ~is_processed(status_master, status_commit, "file", f, c)}
        /\ get_unprocessed_functions(functions, status_master, status_commit, c)
             = {f \in 1..Len(functions) :
                  ~is_processed(status_master, status_commit, "function", f, c)}
        /\ \A i \in Items :
             /\ <<"file", i, c>> \in marked
                  => i \notin get_unprocessed_files(files, status_master, status_commit, c)
             /\ <<"function", i, c>> \in marked
                  => i \notin get_unprocessed_functions(functions, status_master,
                                                        status_commit, c)

\* C14: in every reachable state of the store no function_calls row has
\* caller_id equal to callee_id.
C14_NoSelfEdge ==
    \A k \in 1..Len(function_calls) :
        function_calls[k].caller_id # function_calls[k].callee_id

\* a store_file_info call for h.c has returned: its pair (2, "foo") resolved
\* caller and callee to the same function row, and no edge was recorded for it
C14_Witness ==
    \E i \in 1..Len(passes) :
        /\ passes[i].path % 3 = 0
        /\ passes[i].st = "ok"
        /\ LET caller == _find_function_id(functions, file_id_of(files, passes[i].path), "foo")
           IN  /\ caller # 0
               /\ caller = _find_function_id(functions, 0, "foo")
               /\ \A k \in 1..Len(function_calls) :
                    function_calls[k].caller_id = caller
                        => function_calls[k].callee_id # caller

\* the (caller_line, callee_name) pair that the next step of the
\* store_file_info call of writer w handles (<<>> when the step is not a pair)
PairAt(w) ==
    LET ps == passes[writers[w].pass]
        info == Facts(ps.path)
        j == ps.next - 1 - Len(Symbols(info)) - Len(info.functions)
    IN  IF j >= 1 /\ j <= Len(info.calls) THEN info.calls[j] ELSE <<>>

\* both ends of the pair resolve in the functions table as it is now
Resolves(w, pair) ==
    LET ps == passes[writers[w].pass]
        info == Facts(ps.path)
        enc == EnclosingIndex(info, pair[1])
    IN  /\ enc # 0
        /\ _find_function_id(functions, file_id_of(files, ps.path),
                             info.functions[enc].name) # 0
        /\ _find_function_id(functions, 0, pair[2]) # 0

\* C15: every function_calls row names two existing functions rows, and a
\* store_file_info step for a pair whose caller or callee does not resolve
\* adds no row.
C15_EdgesResolve ==
    [][/\ \A k \in 1..Len(function_calls') :
            /\ function_calls'[k].caller_id \in 1..Len(functions')
            /\ function_calls'[k].callee_id \in 1..Len(functions')
       /\ \A w \in Writers :
            (/\ writers[w].state = "storing"
             /\ writer_store(w)
             /\ PairAt(w) # <<>>
             /\ ~Resolves(w, PairAt(w)))
                => function_calls' = function_calls]_vars

\* a store_file_info call for h.c has returned on a store that has no
\* function a and no function init: its pairs (2, "a"), (10, "init") and
\* (13, "init") did not resolve and left no row, so every recorded edge is a
\* call of foo
C15_Witness ==
    \E i \in 1..Len(passes) :
        /\ passes[i].path % 3 = 0
        /\ passes[i].st = "ok"
        /\ _find_function_id(functions, 0, "a") = 0
        /\ _find_function_id(functions, 0, "init") = 0
        /\ \A k \in 1..Len(function_calls) :
                functions[function_calls[k].callee_id].name = "foo"

\* the entry of the code map that holds function row function_id
EntryOf(function_id) ==
    FuncEntry(files, functions, function_calls,
              SameKey(files, functions, function_id)[1])

InSeq(x, seq) == \E k \in 1..Len(seq) : seq[k] = x

\* C16: in the assembled code map, for every stored edge the caller's entry
\* lists the callee's label in its callees, the callee's entry lists the
\* caller's label in its callers, and no callees list holds a label that is
\* not the callee of one of the entry's edges.
C16_RefsMatchEdges ==
    /\ \A k \in 1..Len(function_calls) :
         LET caller == function_calls[k].caller_id
             callee == function_calls[k].callee_id
         IN  /\ InSeq(fetch_function_name_and_file(files, functions, callee),
                      EntryOf(caller).callees)
             /\ InSeq(fetch_function_name_and_file(files, functions, caller),
                      EntryOf(callee).callers)
    /\ \A i \in 1..Len(functions) :
         \A n \in 1..Len(EntryOf(i).callees) :
            \E k \in 1..Len(function_calls) :
               /\ UnifyKey(files, functions, function_calls[k].caller_id)
                    = UnifyKey(files, functions, i)
               /\ fetch_function_name_and_file(files, functions,
                                               function_calls[k].callee_id)
                    = EntryOf(i).callees[n]

NoRepeats(seq) == \A i, j \in 1..Len(seq) : seq[i] = seq[j] => i = j

\* the labels of the callers of the rows unified with function_id, one per
\* function_calls row, in row order
RawCallers(function_id) ==
    LET rows == SelectSeq(function_calls,
                          LAMBDA r : UnifyKey(files, functions, r.callee_id)
                                     = UnifyKey(files, functions, function_id))
    IN  [k \in 1..Len(rows) |->
           fetch_function_name_and_file(files, functions, rows[k].caller_id)]

FirstIndex(x, seq) ==
    CHOOSE k \in 1..Len(seq) : seq[k] = x /\ \A j \in 1..(k - 1) : seq[j] # x

\* C17: no callers list and no callees list of the assembled code map holds a
\* label twice, whatever duplicate function_calls rows and function rows the
\* store holds, and a callers list holds the caller labels of the rows in the
\* order of their first occurrence.
C17_RefsExposedOnce ==
    \A i \in 1..Len(functions) :
        LET e == EntryOf(i)
            raw == RawCallers(i)
        IN  /\ NoRepeats(e.callers)
            /\ NoRepeats(e.callees)
            /\ \A x \in {raw[k] : k \in 1..Len(raw)} : InSeq(x, e.callers)
            /\ \A m, n \in 1..Len(e.callers) :
                 /\ InSeq(e.callers[m], raw)
                 /\ m < n => FirstIndex(e.callers[m], raw) < FirstIndex(e.callers[n], raw)

\* the store holds the same edge twice and the same function twice, and the
\* function has a caller
C17_Witness ==
    /\ \E k, l \in 1..Len(function_calls) :
         k # l /\ function_calls[k] = function_calls[l]
    /\ \E i, j \in 1..Len(functions) :
         /\ i # j
         /\ UnifyKey(files, functions, i) = UnifyKey(files, functions, j)
         /\ EntryOf(i).callers # <<>>

\* function rows i and j are a declaration in one file and a definition of the
\* same name in another file
DeclaredAndDefined(i, j) ==
    /\ functions[i].name = functions[j].name
    /\ functions[i].is_prototype /\ ~functions[j].is_prototype
    /\ functions[i].file_id # functions[j].file_id

\* the entries of the code map for a name
EntriesNamed(name) ==
    LET m == build_code_map_from_db(files, functions, function_calls)
    IN  {m[k] : k \in {n \in 1..Len(m) : m[n].name = name}}

FileSummaryRows(sums, file_id, commit_sha) ==
    {r \in sums : r.file_id = file_id /\ r.commit_sha = commit_sha}

FunctionSummaryRows(sums, function_id, commit_sha) ==
    {r \in sums : r.function_id = function_id /\ r.commit_sha = commit_sha}

\* C19: summary writes are upserts.  In every state each summary table has
\* at most one row per (item id, commit); a call of insert_file_summary or
\* insert_function_summary for (i, c) with texts (s1, s2) leaves exactly one
\* row for (i, c) in its table, holding s1 and s2, and changes no row of any
\* other (item id, commit) and no row of the other table.
C19_SummaryUpserts ==
    [][ /\ \A i \in Items, c \in Commits :
              /\ Cardinality(FileSummaryRows(file_summaries', i, c)) <= 1
              /\ Cardinality(FunctionSummaryRows(function_summaries', i, c)) <= 1
        /\ \A i \in Items, c \in Commits, s1 \in Texts, s2 \in Texts :
              /\ insert_file_summary_call(i, c, s1, s2) =>
                    /\ FileSummaryRows(file_summaries', i, c) =
                          {[file_id |-> i, commit_sha |-> c,
                            summary |-> s1, summary_refined |-> s2]}
                    /\ \A j \in Items, d \in Commits :
                          <<j, d>> # <<i, c>> =>
                             FileSummaryRows(file_summaries', j, d) =
                             FileSummaryRows(file_summaries, j, d)
                    /\ function_summaries' = function_summaries
              /\ insert_function_summary_call(i, c, s1, s2) =>
                    /\ FunctionSummaryRows(function_summaries', i, c) =
                          {[function_id |-> i, commit_sha |-> c,
                            summary |-> s1, summary_refined |-> s2]}
                    /\ \A j \in Items, d \in Commits :
                          <<j, d>> # <<i, c>> =>
                             FunctionSummaryRows(function_summaries', j, d) =
                             FunctionSummaryRows(function_summaries, j, d)
                    /\ file_summaries' = file_summaries
      ]_vars

\* two writes were made, both to the file summary of one (file, commit): the
\* second found the row of the first
C19_Witness ==
    /\ summaries = 2
    /\ Cardinality(file_summaries) = 1
    /\ function_summaries = {}

(***************************************************************************)
(* File identity.                                                          *)
(***************************************************************************)
\* C20: file identity is stable.  No step deletes a files row or changes the
\* path of a file_id; the files table never has two rows for one path, also
\* when two calls of insert_or_get_file_id for a path not yet present
\* overlap; every call returns the file_id of the row of its path, so calls
\* for the same path return the same id and calls for distinct paths return
\* distinct ids.
C20_FileIdentityStable ==
    [][ /\ Len(files') >= Len(files)
        /\ \A i \in 1..Len(files) : files'[i] = files[i]
        /\ \A i \in 1..Len(files'), j \in 1..Len(files') :
              files'[i] = files'[j] => i = j
        /\ \A r \in file_id_calls'.returned :
              /\ r[2] \in 1..Len(files')
              /\ files'[r[2]] = r[1]
        /\ \A r1 \in file_id_calls'.returned, r2 \in file_id_calls'.returned :
              r1[1] = r2[1] <=> r1[2] = r2[2]
      ]_vars

\* two calls for one path that was not present overlap: both have made their
\* INSERT, neither has made its SELECT, and the files table has the one row
C20_Witness ==
    /\ passes = <<>>
    /\ file_id_calls.n = 2
    /\ file_id_calls.open[1] # 0
    /\ file_id_calls.open[2] = file_id_calls.open[1]
    /\ files = <<file_id_calls.open[1]>>

(***************************************************************************)
(* The connection pool.                                                    *)
(***************************************************************************)
\* the positions at which a thread waits for an LLM call or for an operation
\* that acquires a connection of its own
ExternalSteps == {"rf_get_id", "llm"}

\* C21: no operation holds a pooled connection across an externally-awaited
\* step: a thread for which an LLM call, or an operation that itself
\* acquires a connection, is in progress holds no connection of the pool.
C21_NoConnectionAcrossAwait ==
    \A t \in Callers : conns.at[t] \in ExternalSteps => conns.held[t] = 0

(***************************************************************************)
(* Parsers.                                                                *)
(***************************************************************************)
\* C22: no parser instance is used by two workers at the same time: two
\* tasks that are parsing use different parser objects, and the parser that
\* was handed in is used only by the holder of _PARSE_LOCK.
C22_ParserExclusive ==
    /\ \A p \in Paths, q \in Paths :
          p # q /\ parsing.using[p] # NoParser => parsing.using[p] # parsing.using[q]
    /\ \A p \in Paths : parsing.using[p] = SharedParser => parsing.lock = p

\* one task parses with the shared parser inside the lock while another task
\* waits for the lock
C22_Witness ==
    \E p \in Paths, q \in Paths :
        /\ parsing.using[p] = SharedParser
        /\ parsing.at[q] = "waiting"

(***************************************************************************)
(* The grammar cache.                                                      *)
(***************************************************************************)
\* C23: load is cached by name (each grammar is loaded once, however often
\* it is asked for) and the parsers handed out are independent of each
\* other: two get_parser calls, also for the same grammar, return different
\* Parser objects.
C23_ParsersIndependent ==
    /\ \A k \in LanguageKeys : grammar_cache.loads[k] <= 1
    /\ \A i \in 1..Len(grammar_cache.got), j \in 1..Len(grammar_cache.got) :
          i # j => grammar_cache.got[i].parser # grammar_cache.got[j].parser

(***************************************************************************)
(* Extraction errors.                                                      *)
(***************************************************************************)
\* number of times path p was enqueued to the writer of run w
TimesEnqueued(w, p) == Cardinality({i \in 1..Len(enqueued[w]) : enqueued[w][i] = p})

\* C24: an exception raised while parsing or extracting a file stays in its
\* worker task.  The failed file was attempted once, is counted once, is not
\* enqueued and is not attempted again; when the futures have all completed
\* every other file has been extracted once and enqueued once.
C24_ExtractionErrorContained ==
    pc \in {"dispatch", "join"} =>
        /\ \A p \in Paths :
              /\ extracted[p] <= 1
              /\ task[p] = "failed" => extracted[p] = 1 /\ TimesEnqueued(runs, p) = 0
        /\ processed_count = Cardinality({p \in Paths : task[p] \in {"done", "failed"}})
        /\ pc = "join" =>
              \A p \in Paths :
                 /\ task[p] \in {"done", "failed"}
                 /\ task[p] = "done" => extracted[p] = 1 /\ TimesEnqueued(runs, p) = 1

\* the futures have all completed, one file failed and another was enqueued
C24_Witness ==
    /\ pc = "join"
    /\ \E p \in Paths, q \in Paths :
          /\ task[p] = "failed"
          /\ task[q] = "done"
          /\ TimesEnqueued(runs, q) = 1

(***************************************************************************)
(* Extraction.                                                             *)
(***************************************************************************)
\* C25: prototypes are extracted only from header files.  The functions of
\* a file whose name does not end in ".h" have is_prototype = false, and in
\* every file each function-definition node gives one function, with the
\* lines of the node and is_prototype = false.
C25_PrototypesOnlyFromHeaders ==
    extraction.state = "extracted" =>
        LET nodes == Preorder(extraction.tree)
            defs == {i \in 1..Len(nodes) : nodes[i].type = "function_definition"}
            funcs == extraction.functions
        IN  /\ extraction.filename[Len(extraction.filename)] # "h"
               \/ extraction.filename[Len(extraction.filename) - 1] # "."
               => \A i \in 1..Len(funcs) : ~funcs[i].prototype
            /\ Cardinality(defs) =
                  Cardinality({i \in 1..Len(funcs) : ~funcs[i].prototype})
            /\ \A d \in defs : \E i \in 1..Len(funcs) :
                  /\ funcs[i].start_line = nodes[d].start_line
                  /\ funcs[i].end_line = nodes[d].end_line
                  /\ funcs[i].name = nodes[d].identifier
                  /\ ~funcs[i].prototype

\* a source file with a function definition that holds a declaration of a
\* named function has been extracted
C25_Witness ==
    /\ extraction.state = "extracted"
    /\ extraction.filename = <<"h", ".", "c">>
    /\ \E i \in 1..Len(extraction.tree) :
          /\ extraction.tree[i].type = "function_definition"
          /\ \E j \in 1..Len(extraction.tree[i].children) :
                IsPrototype(extraction.tree[i].children[j])
    /\ Len(extraction.functions) = 1

(***************************************************************************)
(* The phases of the pipeline: Discovering and the start of Dispatching    *)
(* are the step from pc = "idle" to "dispatch", Draining is "join" and     *)
(* Stopped is "parsed".                                                    *)
(***************************************************************************)
\* the sentinel is in the queue of the writer of the current run
SentinelSent == \E i \in 1..Len(writers[runs].q) : writers[runs].q[i] = 0

C27_PipelineTerminates ==
    (pc = "dispatch") ~>
          (/\ pc = "parsed"
           /\ \A p \in Paths : extracted[p] = 1 /\ task[p] \notin {"pending", "running"}
           /\ writers[runs].state = "exited"
           /\ writers[runs].q = <<>>
           /\ runs \in watchdogs)

\* the run is over after an extraction failed and a store call raised: the
\* function has returned, the writer has ended, the watchdog has stopped
C27_Witness ==
    /\ pc = "parsed"
    /\ writers[runs].state = "exited"
    /\ runs \in watchdogs
    /\ faults > 0
    /\ \E p \in Paths : extracted[p] = 1 /\ TimesEnqueued(runs, p) = 0

(***************************************************************************)
(* Call-edge resolution.                                                   *)
(***************************************************************************)
\* the functions rows of a name that are definitions
DefinitionRows(fns, n) ==
    {i \in 1..Len(fns) : fns[i].name = n /\ ~fns[i].is_prototype}

\* C28: callee resolution prefers a real definition.  Whenever a step of
\* store_file_info records an edge for a call of the name n, the callee row is
\* a row named n, and if the functions table holds a definition row named n
\* at that time the callee row is a definition row; a prototype row is the
\* callee only when no definition row of the name exists.
C28_CalleePrefersDefinition ==
    [][\A w \in Writers :
          (/\ writers[w].state = "storing"
           /\ writer_store(w)
           /\ Len(function_calls') > Len(function_calls))
             => LET n == PairAt(w)[2]
                    callee == function_calls'[Len(function_calls')].callee_id
                IN  /\ PairAt(w) # <<>>
                    /\ functions[callee].name = n
                    /\ DefinitionRows(functions, n) # {}
                          => callee \in DefinitionRows(functions, n)
                    /\ functions[callee].is_prototype
                          => DefinitionRows(functions, n) = {}]_vars

\* both branches were taken: an edge to the definition row of foo was recorded
\* although an older prototype row of foo exists (h.h stored before h.c), and
\* an edge to the prototype row of init was recorded, init having no
\* definition row
C28_Witness ==
    /\ \E k \in 1..Len(function_calls) :
          LET callee == function_calls[k].callee_id
          IN  /\ functions[callee].name = "foo"
              /\ ~functions[callee].is_prototype
              /\ \E i \in 1..(callee - 1) :
                    functions[i].name = "foo" /\ functions[i].is_prototype
    /\ \E k \in 1..Len(function_calls) :
          LET callee == function_calls[k].callee_id
          IN  /\ functions[callee].name = "init"
              /\ functions[callee].is_prototype

\* C29: the caller of every recorded edge is the enclosing function of the
\* call.  Whenever a step of store_file_info for a file records an edge for a
\* pair (caller_line, callee_name), the caller row is a functions row of that
\* file whose line range [start_line, end_line] holds caller_line, also when
\* the file has several rows of the same function name.
C29_CallerEncloses ==
    [][\A w \in Writers :
          (/\ writers[w].state = "storing"
           /\ writer_store(w)
           /\ Len(function_calls') > Len(function_calls))
             => LET line == PairAt(w)[1]
                    caller == function_calls'[Len(function_calls')].caller_id
                IN  /\ PairAt(w) # <<>>
                    /\ functions[caller].file_id
                          = file_id_of(files, passes[writers[w].pass].path)
                    /\ functions[caller].start_line <= line
                    /\ line <= functions[caller].end_line]_vars

\* the functions rows that store_file_info inserts for the function func of
\* the file file_id
RowsOf(fns, file_id, func) ==
    {i \in 1..Len(fns) :
        fns[i] = [file_id |-> file_id, name |-> func.name,
                  start_line |-> func.start_line, end_line |-> func.end_line,
                  is_prototype |-> func.prototype]}

\* the store_file_info calls for a path that have returned
Returned(p) ==
    {i \in 1..Len(passes) : passes[i].path = p /\ passes[i].st = "ok"}

\* the pair is a call, made inside a function of the file, of another function
\* that the file defines
CallsSibling(info, pair) ==
    LET enc == EnclosingIndex(info, pair[1])
    IN  /\ enc # 0
        /\ info.functions[enc].name # pair[2]
        /\ \E j \in 1..Len(info.functions) :
              info.functions[j].name = pair[2] /\ ~info.functions[j].prototype

\* C30: within one store_file_info call the function rows of the file are
\* inserted before any of its call pairs is resolved, so a non-recursive call
\* of a function defined in the same file always produces an edge.  At every
\* step that handles a call pair, every function of the file already has the
\* row of this call (one more row than the calls for the file that returned),
\* and if the pair is a call, inside a function of the file, of another
\* function defined in the file, the step adds an edge from a row of the
\* enclosing function's name in this file to a definition row of the called
\* name, whatever else the store holds.
C30_SiblingCallStored ==
    [][\A w \in Writers :
          (/\ writers[w].state = "storing"
           /\ writer_store(w)
           /\ PairAt(w) # <<>>)
             => LET p == passes[writers[w].pass].path
                    info == Facts(p)
                    file_id == file_id_of(files, p)
                    pair == PairAt(w)
                    edge == function_calls'[Len(function_calls')]
                IN  /\ \A j \in 1..Len(info.functions) :
                          Cardinality(RowsOf(functions, file_id, info.functions[j]))
                              > Cardinality(Returned(p))
                    /\ CallsSibling(info, pair)
                          => /\ Len(function_calls') = Len(function_calls) + 1
                             /\ functions[edge.caller_id].file_id = file_id
                             /\ functions[edge.caller_id].name
                                   = info.functions[EnclosingIndex(info, pair[1])].name
                             /\ edge.callee_id \in DefinitionRows(functions, pair[2])]_vars

\* h.h was stored and then h.c: the call of foo inside use left an edge from
\* a row of use in h.c to a definition row of foo, with the rows of another
\* file in the store
C30_Witness ==
    /\ Len(passes) = 2
    /\ passes[1].path % 3 = 2 /\ passes[1].st = "ok"
    /\ passes[2].path % 3 = 0 /\ passes[2].st = "ok"
    /\ \E k \in 1..Len(function_calls) :
          /\ functions[function_calls[k].caller_id].name = "use"
          /\ functions[function_calls[k].caller_id].file_id
                = file_id_of(files, passes[2].path)
          /\ function_calls[k].callee_id \in DefinitionRows(functions, "foo")


(***************************************************************************)
(* Call edges and the order of arrival at the writer.                      *)
(***************************************************************************)
\* the call edges of the store as (caller label, callee label) pairs
EdgeLabels ==
    {<<fetch_function_name_and_file(files, functions, function_calls[k].caller_id),
       fetch_function_name_and_file(files, functions, function_calls[k].callee_id)>> :
        k \in 1..Len(function_calls)}

\* every path of the store was stored by exactly one store_file_info call,
\* which returned
StoredOnce ==
    /\ passes # <<>>
    /\ \A i \in 1..Len(passes) : passes[i].st = "ok"
    /\ \A i, j \in 1..Len(passes) : passes[i].path = passes[j].path => i = j

\* C31: the call edges in the store after the files of a set were written once
\* each do not depend on the order of arrival at the writer.  In particular,
\* for every call in a function f of a stored file p of a name n that no
\* function of p has and a function of another stored file q has, an edge from
\* (p, f) to a function n is recorded, whether p or q was written first.
C31_EdgesOrderIndependent ==
    StoredOnce =>
        \A i, j \in 1..Len(passes) :
            LET p == passes[i].path
                q == passes[j].path
                info == Facts(p)
            IN  \A c \in 1..Len(info.calls) :
                    LET enc == EnclosingIndex(info, info.calls[c][1])
                        n == info.calls[c][2]
                    IN  (/\ i # j
                         /\ enc # 0
                         /\ \A g \in 1..Len(info.functions) :
                                info.functions[g].name # n
                         /\ \E g \in 1..Len(Facts(q).functions) :
                                Facts(q).functions[g].name = n)
                            => \E e \in EdgeLabels :
                                   /\ e[1] = <<p, info.functions[enc].name>>
                                   /\ e[2][2] = n


(***************************************************************************)
(* Unification of function rows in the assembled code map.                 *)
(***************************************************************************)
\* the labels of the callers of the rows that share the key of function_id
CallersOfKey(function_id) ==
    {fetch_function_name_and_file(files, functions, function_calls[k].caller_id) :
        k \in {k \in 1..Len(function_calls) :
                 UnifyKey(files, functions, function_calls[k].callee_id)
                    = UnifyKey(files, functions, function_id)}}

\* the labels of the callees of the rows that share the key of function_id
CalleesOfKey(function_id) ==
    {fetch_function_name_and_file(files, functions, function_calls[k].callee_id) :
        k \in {k \in 1..Len(function_calls) :
                 UnifyKey(files, functions, function_calls[k].caller_id)
                    = UnifyKey(files, functions, function_id)}}

Range(seq) == {seq[k] : k \in 1..Len(seq)}

\* C32: the assembled code map has at most one function entry per
\* (path, name, start_line, end_line), and the callers and the callees of that
\* entry are, without repeats, exactly the callers and the callees of all the
\* function rows of that identity.
C32_UnifiedRefsAreUnion ==
    LET m == build_code_map_from_db(files, functions, function_calls)
        key(e) == <<e.path, e.name, e.start_line, e.end_line>>
    IN  /\ \A k, l \in 1..Len(m) : key(m[k]) = key(m[l]) => k = l
        /\ \A i \in 1..Len(functions) :
             LET e == EntryOf(i)
             IN  /\ NoRepeats(e.callers)
                 /\ NoRepeats(e.callees)
                 /\ Range(e.callers) = CallersOfKey(i)
                 /\ Range(e.callees) = CalleesOfKey(i)


(***************************************************************************)
(* Return type and parameters of unified rows.                             *)
(***************************************************************************)
\* the rows of func_map with the key, in order
RowsOfKey(func_map, key) == SelectSeq(func_map, LAMBDA fobj : fobj.key = key)

\* the first element of a sequence that differs from none, or none
FirstSupplied(seq, none) ==
    IF \E k \in 1..Len(seq) : seq[k] # none
    THEN seq[CHOOSE k \in 1..Len(seq) :
                seq[k] # none /\ \A j \in 1..(k - 1) : seq[j] = none]
    ELSE none

\* C33: when rows of one identity are unified, the entry has the first-seen
\* return type and parameters, unless the first-seen row has none (empty) and
\* a later row of the identity supplies them: then it has the data of the
\* later row.
C33_FirstSeenUnlessEmpty ==
    \A k \in 1..Len(assembly.functions) :
        LET e == assembly.functions[k]
            rows == RowsOfKey(assembly.func_map, e.key)
        IN  /\ e.return_type
                 = FirstSupplied([i \in 1..Len(rows) |-> rows[i].return_type], "")
            /\ e.parameters
                 = FirstSupplied([i \in 1..Len(rows) |-> rows[i].parameters], <<>>)


(***************************************************************************)
(* Repeated extraction of a file.                                          *)
(***************************************************************************)
\* the function entries of the assembled code map under one path
EntriesOfPath(fs, fns, calls, p) ==
    SelectSeq(build_code_map_from_db(fs, fns, calls), LAMBDA e : e.path = p)

\* C34: storing the FileFacts of an unchanged file a second time is invisible
\* after assembly.  When a store_file_info call for a file that was stored
\* before returns, the file still has its one files row, the call has added
\* one more functions row per function of the file, and the function entries
\* of the file in the assembled code map (names, line ranges, prototype flags,
\* callers, callees) are the ones the store had when the call began.
C34_ReExtractionInvisible ==
    [][\A w \in Writers :
          (/\ writers[w].state = "storing"
           /\ writer_store(w)
           /\ passes'[writers[w].pass].st = "ok"
           /\ Returned(passes[writers[w].pass].path) # {})
             => LET i == writers[w].pass
                    p == passes[i].path
                    info == Facts(p)
                    nfun == Len(info.functions)
                    ncall == passes'[i].rows - Len(Symbols(info)) - nfun
                    fns_before == SubSeq(functions', 1, Len(functions') - nfun)
                    calls_before == SubSeq(function_calls', 1,
                                           Len(function_calls') - ncall)
                IN  /\ Cardinality({k \in 1..Len(files') : files'[k] = p}) = 1
                    /\ \A j \in 1..nfun :
                          functions'[Len(fns_before) + j]
                            = [file_id |-> file_id_of(files', p),
                               name |-> info.functions[j].name,
                               start_line |-> info.functions[j].start_line,
                               end_line |-> info.functions[j].end_line,
                               is_prototype |-> info.functions[j].prototype]
                    /\ EntriesOfPath(files', functions', function_calls', p)
                         = EntriesOfPath(files', fns_before, calls_before, p)]_vars


(***************************************************************************)
(* The rows and the timestamps of the status tables.                       *)
(***************************************************************************)
MasterRows(master, item_id) == {m \in master : m.item_id = item_id}

CommitRows(commits, item_id, commit_sha) ==
    {s \in commits : s.item_id = item_id /\ s.commit_sha = commit_sha}

\* C35: mark_processed is idempotent on the row set.  After every call for
\* (item_type, item_id, commit) there is exactly one master row of the item
\* and exactly one commit row of (item_id, commit); the first_seen_at of an
\* item is the time of the call that created its master row and never
\* changes; and a call leaves every other row and every other timestamp as
\* it was and sets the last_updated_at of its (item_id, commit) row.
C35_MarkIdempotent ==
    [][/\ \A m \in marked' :
            /\ Cardinality(MasterRows(status_master', m[2])) = 1
            /\ Cardinality(CommitRows(status_commit', m[2], m[3])) = 1
            /\ Cardinality({s \in status_times'.first_seen_at : s.item_id = m[2]}) = 1
            /\ Cardinality(CommitRows(status_times'.last_updated_at, m[2], m[3])) = 1
       /\ status_times.first_seen_at \subseteq status_times'.first_seen_at
       /\ \A t \in ItemTypes, i \in Items, c \in Commits :
            mark_processed(t, i, c) =>
                /\ status_master' \ status_master \subseteq MasterRows(status_master', i)
                /\ MasterRows(status_master, i) # {} => status_master' = status_master
                /\ MasterRows(status_master, i) = {} =>
                      [item_id |-> i, at |-> status_times.now]
                          \in status_times'.first_seen_at
                /\ status_commit' = status_commit \cup CommitRows(status_commit', i, c)
                /\ {u \in status_times'.last_updated_at :
                       ~(u.item_id = i /\ u.commit_sha = c)}
                     = {u \in status_times.last_updated_at :
                       ~(u.item_id = i /\ u.commit_sha = c)}
                /\ [item_id |-> i, commit_sha |-> c, at |-> status_times.now]
                       \in status_times'.last_updated_at]_vars

\* an item was marked for a commit at two different times: its commit row has
\* the time of the second call, its master row the time of the first
C35_Witness ==
    \E m \in marked :
        \E s \in status_times.first_seen_at, u \in status_times.last_updated_at :
            /\ s.item_id = m[2]
            /\ u.item_id = m[2] /\ u.commit_sha = m[3]
            /\ s.at < u.at
            /\ \A v \in status_times.last_updated_at : v.item_id = m[2] => v = u


\* the item is not in the list get_unprocessed_files or
\* get_unprocessed_functions returns for the commit
ReportedProcessed(master, commits, item_type, item_id, commit_sha) ==
    IF item_type = "file"
    THEN item_id \notin get_unprocessed_files(files, master, commits, commit_sha)
    ELSE item_id \notin get_unprocessed_functions(functions, master, commits, commit_sha)

\* C36: processing status is tracked per (item_type, item_id).  For a file
\* and a function with the same numeric id, a mark_processed call for one of
\* them leaves what is reported for the other as it was, for every commit, and
\* the one it marks is reported processed afterwards, whether or not the other
\* one was marked first.
C36_StatusPerTypeAndId ==
    [][\A t \in ItemTypes, i \in Items, c \in Commits :
          (/\ i \in 1..Len(files)
           /\ i \in 1..Len(functions)
           /\ mark_processed(t, i, c))
            => /\ ReportedProcessed(status_master', status_commit', t, i, c)
               /\ \A u \in ItemTypes \ {t}, d \in Commits :
                     ReportedProcessed(status_master', status_commit', u, i, d)
                        <=> ReportedProcessed(status_master, status_commit, u, i, d)]_vars


(***************************************************************************)
(* The progress counter and the current-file marker.                       *)
(***************************************************************************)
\* total: the number of files of the run
total == Cardinality(Paths)

\* the worker tasks that have returned
Finished(tasks) == {p \in Paths : tasks[p] \in {"done", "failed"}}

\* C37: the progress counter counts every dispatched file exactly once, on
\* success or on failure.  While parse_and_store_entire_codebase runs,
\* processed_count is the number of worker tasks that have returned and is at
\* most total, and it is total when all of them have returned; a step of the
\* watchdog changes neither the counter nor the marker nor anything else of
\* the run or the store.
C37_CountedOnce ==
    [][/\ pc' \in {"dispatch", "join"} =>
            /\ processed_count' = Cardinality(Finished(task'))
            /\ processed_count' <= total
            /\ Finished(task') = Paths => processed_count' = total
       /\ \A p \in Paths :
            task[p] = "running" /\ task'[p] \in {"done", "failed"}
                => processed_count' = processed_count + 1
       /\ \A w \in Writers :
            _watchdog_stops(w) =>
                UNCHANGED <<processed_count, last_processed_relpath, task, writers,
                            store, tracker, pc, runs, stop_flag>>]_vars

\* all tasks of a run have returned, one of them with an exception, the
\* counter is at total, and the watchdog of the run has ended
C37_Witness ==
    /\ pc = "join"
    /\ \E p \in Paths : task[p] = "failed"
    /\ \E p \in Paths : task[p] = "done"
    /\ processed_count = total
    /\ runs \in watchdogs


\* C38: the in-flight path the watchdog reports is accurate under
\* concurrency.  Whenever a worker is between picking up a file and finishing
\* it, last_processed_relpath holds the path of a file that is being processed:
\* it is not None and not the path of a file whose task has returned.
C38_MarkerInFlight ==
    Running # {} => last_processed_relpath \in Running


(***************************************************************************)
(* Conservation of the pooled connections.                                 *)
(***************************************************************************)
RECURSIVE SumOver(_, _)
SumOver(f, S) ==
    IF S = {} THEN 0
    ELSE LET x == CHOOSE x \in S : TRUE IN f[x] + SumOver(f, S \ {x})

\* the connections that are out of the pool's queue: those held by the frames
\* of the threads, and those held by an insert_or_get_file_id call in progress
InUse ==
    SumOver(conns.held, Callers)
    + Cardinality({t \in Callers : conns.at[t] = "rf_get_id"})

\* C39: connection-pool conservation.  In every state the connections in the
\* pool's queue plus the connections held by callers are pool_size, at most
\* pool_size are held, and a thread that is in no operation holds none: every
\* operation has put back what it acquired, on return and on exception.
C39_PoolConserved ==
    /\ conns.free + InUse = MaxConns
    /\ conns.free >= 0
    /\ InUse <= MaxConns
    /\ \A t \in Callers : conns.at[t] \in {"idle", "llm"} => conns.held[t] = 0

\* the pool is empty, one of its connections being held by an
\* insert_or_get_file_id call in progress, and a file was stored by an earlier
\* insert_or_get_file_id call after which resummarize_file raised and released
C39_Witness ==
    /\ conns.free = 0
    /\ \E t \in Callers : conns.at[t] = "rf_get_id"
    /\ files # <<>>
    /\ \E t \in Callers : conns.at[t] = "idle"


\* C40: building the code map never deadlocks on the connection pool.  Every
\* build_code_map_from_db call that has acquired its connection eventually
\* returns with all its connections released, whatever the number of callers,
\* although it calls fetch_function_name_and_file, which acquires a
\* connection, while it holds its own.
C40_BuildReturns ==
    \A t \in Callers :
        (conns.at[t] = "cm_holding") ~> (conns.at[t] = "idle" /\ conns.held[t] = 0)

====
